---------------------------- MODULE Spec2Model ----------------------------
(***************************************************************************)
(* Model of the ClickUp MCP identifier resolver:                           *)
(*   clickup_mcp/utils.py   parse_task_id                                  *)
(*   clickup_mcp/tools.py   ClickUpTools._resolve_task_id                  *)
(*   clickup_mcp/client.py  ClickUpClient._request, get_task,              *)
(*                          get_workspaces, search_tasks, update_task,     *)
(*                          get_subtasks                                   *)
(*   clickup_mcp/tools.py   ClickUpTools.get_task, bulk_update_tasks,      *)
(*                          bulk_move_tasks                                *)
(*                                                                         *)
(* Python strings are sequences of one-character strings, so that          *)
(* strip(), startswith(), split() and the regular expression are computed  *)
(* character by character.  Python's None is the value None below.         *)
(***************************************************************************)
EXTENDS Integers, Sequences, FiniteSets, TLC

\* ------------------------------------------------------------------------
\* Bounds of the model
\* ------------------------------------------------------------------------

\* longest raw reference drawn from Alphabet
MaxLen == 2

\* longest list of tasks the search endpoint returns
MaxResults == 2

\* ------------------------------------------------------------------------
\* Strings
\* ------------------------------------------------------------------------

None == <<"<None>">>

UpperSeq == <<"A","B","C","D","E","F","G","H","I","J","K","L","M",
              "N","O","P","Q","R","S","T","U","V","W","X","Y","Z">>

LowerSeq == <<"a","b","c","d","e","f","g","h","i","j","k","l","m",
              "n","o","p","q","r","s","t","u","v","w","x","y","z">>

Digits == {"0","1","2","3","4","5","6","7","8","9"}

Range(f) == {f[i] : i \in DOMAIN f}

\* str.lower() on one character
LowerChar(c) ==
    IF c \in Range(UpperSeq)
    THEN LowerSeq[CHOOSE i \in DOMAIN UpperSeq : UpperSeq[i] = c]
    ELSE c

\* str.lower()
Lower(s) == [i \in DOMAIN s |-> LowerChar(s[i])]

\* the character class [a-zA-Z0-9-] of the fallback regular expression
IdChars == Range(UpperSeq) \cup Range(LowerSeq) \cup Digits \cup {"-"}

Whitespace == {" "}

SeqsUpTo(S, n) == UNION {[1..k -> S] : k \in 0..n}

\* s[from:] of Python with a 1-based index
Drop(s, from) == IF from > Len(s) THEN <<>> ELSE SubSeq(s, from, Len(s))

\* s[:upto] of Python: the first upto characters
Take(s, upto) == IF upto <= 0 THEN <<>> ELSE SubSeq(s, 1, upto)

\* str.startswith
StartsWith(s, p) == Len(s) >= Len(p) /\ SubSeq(s, 1, Len(p)) = p

\* index of the first character of s, at or after from, that lies in the
\* set cs; Len(s) + 1 when there is none
FindFirst(s, cs, from) ==
    IF \E i \in from..Len(s) : s[i] \in cs
    THEN CHOOSE i \in from..Len(s) :
            s[i] \in cs /\ \A j \in from..(i - 1) : s[j] \notin cs
    ELSE Len(s) + 1

\* index of the last occurrence of c in s; 0 when there is none
FindLast(s, c) ==
    IF \E i \in 1..Len(s) : s[i] = c
    THEN CHOOSE i \in 1..Len(s) :
            s[i] = c /\ \A j \in (i + 1)..Len(s) : s[j] # c
    ELSE 0

\* "c in s"
Contains(s, c) == \E i \in 1..Len(s) : s[i] = c

\* str.strip(): leading and trailing whitespace removed
Strip(s) ==
    IF \A i \in 1..Len(s) : s[i] \in Whitespace
    THEN <<>>
    ELSE LET first == CHOOSE i \in 1..Len(s) :
                         s[i] \notin Whitespace
                         /\ \A j \in 1..(i - 1) : s[j] \in Whitespace
             last  == CHOOSE i \in 1..Len(s) :
                         s[i] \notin Whitespace
                         /\ \A j \in (i + 1)..Len(s) : s[j] \in Whitespace
         IN  SubSeq(s, first, last)

\* s.split(sep) of Python for a one-character separator: the list of the
\* pieces between separators, empty pieces included
RECURSIVE Split(_, _)
Split(s, sep) ==
    LET i == FindFirst(s, {sep}, 1)
    IN  IF i > Len(s)
        THEN <<s>>
        ELSE <<Take(s, i - 1)>> \o Split(Drop(s, i + 1), sep)

\* Python truthiness of an Optional[str]: None and "" are false
Truthy(v) == v # None /\ v # <<>>

\* ------------------------------------------------------------------------
\* urllib.parse.urlparse(url).path for an http(s) URL
\* ------------------------------------------------------------------------

HTTP == <<"h","t","t","p",":","/","/">>

HTTPS == <<"h","t","t","p","s",":","/","/">>

\* The path component: after "scheme://" the network location runs up to
\* the first of "/", "?", "#"; the fragment is cut at the first "#", the
\* query at the first "?", and the parameters of the last segment at the
\* first ";" after the last "/".
UrlPath(url) ==
    LET afterScheme == Drop(url, FindFirst(url, {":"}, 1) + 3)
        rest        == Drop(afterScheme, FindFirst(afterScheme, {"/", "?", "#"}, 1))
        noFragment  == Take(rest, FindFirst(rest, {"#"}, 1) - 1)
        noQuery     == Take(noFragment, FindFirst(noFragment, {"?"}, 1) - 1)
        semi        == FindFirst(noQuery, {";"}, FindLast(noQuery, "/") + 1)
    IN  Take(noQuery, semi - 1)

\* re.search(r"/t/([a-zA-Z0-9-]+)", path): group 1 of the leftmost match,
\* None when the path has no match
RegexTaskId(path) ==
    LET Hit(i) == /\ i + 3 <= Len(path)
                  /\ path[i] = "/" /\ path[i + 1] = "t" /\ path[i + 2] = "/"
                  /\ path[i + 3] \in IdChars
    IN  IF \E i \in 1..Len(path) : Hit(i)
        THEN LET i    == CHOOSE k \in 1..Len(path) :
                            Hit(k) /\ \A j \in 1..(k - 1) : ~Hit(j)
                 stop == FindFirst(path, Range(path) \ IdChars, i + 3)
             IN  SubSeq(path, i + 3, stop - 1)
        ELSE None

\* ------------------------------------------------------------------------
\* utils.parse_task_id
\* ------------------------------------------------------------------------

\* [part for part in parsed.path.split("/") if part]
PathParts(path) == SelectSeq(Split(path, "/"), LAMBDA part : part # <<>>)

\* variant of SegmentId: the second segment is the task id of every
\* path that starts with the segment "t"
SegmentId_Second(path_parts) ==
    IF Len(path_parts) >= 2 /\ path_parts[1] = <<"t">>
    THEN path_parts[2]
    ELSE None

\* the task id of the paths /t/{teamid}/{taskid} and /t/{taskid}: the last
\* part when there are three or more, the second when there are two; None
\* when the first part is not "t" or it is the only one
SegmentId(path_parts) ==
    IF Len(path_parts) >= 3 /\ path_parts[1] = <<"t">>
    THEN path_parts[Len(path_parts)]
    ELSE IF Len(path_parts) >= 2 /\ path_parts[1] = <<"t">>
    THEN path_parts[2]
    ELSE None

\* variant of HashCandidate: every leading "#" is removed
HashCandidate_AllHashes(task_ref) ==
    Drop(task_ref, FindFirst(task_ref, Range(task_ref) \ {"#"}, 1))

\* variant of HashCandidate: the first character is removed whatever it is
HashCandidate_Unguarded(task_ref) == Drop(task_ref, 2)

\* "elif task_ref.startswith('#'): extracted_id = task_ref[1:]", and
\* extracted_id = task_ref otherwise
HashCandidate(task_ref) ==
    IF StartsWith(task_ref, <<"#">>) THEN Drop(task_ref, 2) ELSE task_ref

\* the network location of a URL: after "scheme://" up to the first of
\* "/", "?", "#"
UrlNetloc(url) ==
    LET afterScheme == Drop(url, FindFirst(url, {":"}, 1) + 3)
    IN  Take(afterScheme, FindFirst(afterScheme, {"/", "?", "#"}, 1) - 1)

\* urlparse(url) raises ValueError("Invalid IPv6 URL") when the network
\* location has one of "[" and "]" without the other
UrlParseRaises(url) ==
    /\ StartsWith(url, HTTP) \/ StartsWith(url, HTTPS)
    /\ Contains(UrlNetloc(url), "[") # Contains(UrlNetloc(url), "]")

\* the candidate extracted from a stripped reference
ExtractId(task_ref) ==
    IF StartsWith(task_ref, HTTP) \/ StartsWith(task_ref, HTTPS)
    THEN LET path       == UrlPath(task_ref)
             path_parts == PathParts(path)
         IN  IF SegmentId(path_parts) # None
             THEN SegmentId(path_parts)
             ELSE IF RegexTaskId(path) # None
             THEN RegexTaskId(path)
             ELSE task_ref
    ELSE HashCandidate(task_ref)

\* variant of IdPrefix: the prefix is looked up as it is written
IdPrefix_AsWritten(extracted_id) == Split(extracted_id, "-")[1]

\* "prefix = extracted_id.split('-')[0].lower()"
IdPrefix(extracted_id) == Lower(Split(extracted_id, "-")[1])

\* parse_task_id(task_ref, id_patterns): the pair (task_id, custom_id_type).
\* id_patterns is the set of keys of the configured mapping; the labels
\* are never read.  Defined for the references urlparse accepts.
parse_task_id(task_ref, id_patterns) ==
    LET extracted_id == ExtractId(Strip(task_ref))
        prefix       == IdPrefix(extracted_id)
    IN  IF id_patterns # {} /\ Contains(extracted_id, "-") /\ prefix \in id_patterns
        THEN [task_id |-> extracted_id, custom_type |-> prefix]
        ELSE [task_id |-> extracted_id, custom_type |-> None]

\* ------------------------------------------------------------------------
\* models.Task and the JSON bodies of the task store
\* ------------------------------------------------------------------------

\* the fields of models.Task without a default value
RequiredTaskFields == {"id", "name", "status", "creator", "list", "folder", "space", "url"}

\* a JSON object of the store that validates as a Task
TaskJson(id, custom_id) ==
    [id |-> id, custom_id |-> custom_id, name |-> "n", status |-> "s",
     creator |-> "c", list |-> "l", folder |-> "f", space |-> "sp", url |-> "u"]

\* a JSON object of the store that validates as a Task with a parent
SubtaskJson(id, parent) == [parent |-> parent] @@ TaskJson(id, None)

\* Task(**data): the validated model (the fields the resolver reads), or
\* the pydantic ValidationError when a required field is missing
Task(data) ==
    IF RequiredTaskFields \subseteq DOMAIN data
    THEN [ok |-> TRUE,
          value |-> [id |-> data.id,
                     custom_id |-> IF "custom_id" \in DOMAIN data
                                   THEN data.custom_id ELSE None,
                     parent |-> IF "parent" \in DOMAIN data
                                THEN data.parent ELSE None]]
    ELSE [ok |-> FALSE, exc |-> [cls |-> "ValidationError"]]

\* ------------------------------------------------------------------------
\* client.ClickUpClient
\* ------------------------------------------------------------------------

\* the answer of the HTTP layer that has not arrived yet
Pending == [kind |-> "pending"]

\* ClickUpAPIError(message, status_code)
ClickUpAPIError(message, status_code) ==
    [cls |-> "ClickUpAPIError", message |-> message, status_code |-> status_code]

\* ClickUpClient._request on the answer of the HTTP layer: the parsed JSON
\* body, or the exception raised
_request(response) ==
    IF response.kind = "timeout"
    THEN [ok |-> FALSE, exc |-> ClickUpAPIError(<<"Request timed out">>, None)]
    ELSE IF response.kind = "request_error"
    THEN [ok |-> FALSE, exc |-> ClickUpAPIError(<<"Request failed">>, None)]
    ELSE IF response.status_code >= 400
    THEN IF response.is_json
         THEN IF "err" \in DOMAIN response.body
              THEN [ok |-> FALSE,
                    exc |-> ClickUpAPIError(<<"API error", response.status_code, response.body.err>>,
                                            response.status_code)]
              ELSE [ok |-> FALSE,
                    exc |-> ClickUpAPIError(<<"API error", response.status_code>>,
                                            response.status_code)]
         ELSE [ok |-> FALSE,
               exc |-> ClickUpAPIError(<<"API error", response.status_code, response.text>>,
                                       response.status_code)]
    ELSE IF response.is_json
    THEN [ok |-> TRUE, value |-> response.body]
    ELSE [ok |-> FALSE, exc |-> [cls |-> "JSONDecodeError"]]

\* the query parameters ClickUpClient.get_task sends
GetTaskParams(incl_subtasks, custom_task_ids, team_id) ==
    LET keys == (IF incl_subtasks THEN {"include_subtasks"} ELSE {})
                \cup (IF custom_task_ids THEN {"custom_task_ids"} ELSE {})
                \cup (IF custom_task_ids /\ Truthy(team_id) THEN {"team_id"} ELSE {})
    IN  [k \in keys |-> IF k = "team_id" THEN team_id ELSE <<"t","r","u","e">>]

\* the request ClickUpClient.get_task issues
GetTaskRequest(id, incl_subtasks, custom_task_ids, team_id) ==
    [method |-> "GET", path |-> <<"task", id>>,
     params |-> GetTaskParams(incl_subtasks, custom_task_ids, team_id),
     response |-> Pending]

\* ClickUpClient.get_task after its request was answered
get_task(response) ==
    LET data == _request(response)
    IN  IF data.ok THEN Task(data.value) ELSE data

\* the request ClickUpClient.get_workspaces issues
GetWorkspacesRequest ==
    [method |-> "GET", path |-> <<"team">>, params |-> [k \in {} |-> None],
     response |-> Pending]

\* the fields of models.Workspace without a default value
RequiredWorkspaceFields == {"id", "name", "color"}

\* a JSON object of the store that validates as a Workspace
WorkspaceJson(id) == [id |-> id, name |-> "n", color |-> "c"]

\* [Workspace(**team) for team in teams]
RECURSIVE WorkspaceList(_)
WorkspaceList(items) ==
    IF items = <<>> THEN [ok |-> TRUE, value |-> <<>>]
    ELSE LET tail == WorkspaceList(Tail(items))
         IN  IF ~(RequiredWorkspaceFields \subseteq DOMAIN items[1])
             THEN [ok |-> FALSE, exc |-> [cls |-> "ValidationError"]]
             ELSE IF ~tail.ok THEN tail
             ELSE [ok |-> TRUE, value |-> <<[id |-> items[1].id]>> \o tail.value]

\* ClickUpClient.get_workspaces after its request was answered
get_workspaces(response) ==
    LET data == _request(response)
    IN  IF ~data.ok THEN data
        ELSE IF "teams" \notin DOMAIN data.value THEN [ok |-> TRUE, value |-> <<>>]
        ELSE WorkspaceList(data.value.teams)

\* the request ClickUpClient.search_tasks issues once it knows the workspace
SearchRequest(workspace_id, query) ==
    [method |-> "GET", path |-> <<"team", workspace_id, "task">>,
     params |-> [k \in (IF Truthy(query) THEN {"query"} ELSE {}) |-> query],
     response |-> Pending]

\* [Task(**task) for task in data.get("tasks", [])]
RECURSIVE TaskList(_)
TaskList(items) ==
    IF items = <<>> THEN [ok |-> TRUE, value |-> <<>>]
    ELSE LET head == Task(items[1])
             tail == TaskList(Tail(items))
         IN  IF ~head.ok THEN head
             ELSE IF ~tail.ok THEN tail
             ELSE [ok |-> TRUE, value |-> <<head.value>> \o tail.value]

\* ClickUpClient.search_tasks after its search request was answered
search_tasks(response) ==
    LET data == _request(response)
    IN  IF ~data.ok THEN data
        ELSE IF "tasks" \notin DOMAIN data.value THEN [ok |-> TRUE, value |-> <<>>]
        ELSE TaskList(data.value.tasks)

\* ------------------------------------------------------------------------
\* The inputs of one resolution and the answers of the task store
\* ------------------------------------------------------------------------

\* characters of the generated raw references
Alphabet == {"g", "1", "-", "#"}

\* references of the documentation, the tests and the comments of the source
ExampleRefs ==
    { <<"g","h","-","1","2","3">>,
      <<"G","H","-","1">>,
      <<"g","-","1">>,
      <<"#","g","-","1">>,
      <<" ","g","-","1">>,
      <<"x","-","1">>,
      <<"a","b","c","1","2","3">>,
      HTTPS \o <<"h","/","t","/","3","/","G","H","-","3","7">>,
      HTTPS \o <<"h","/","t","/","g","-","1">>,
      HTTPS \o <<"h","/","t","/">> }

RawRefs == SeqsUpTo(Alphabet, MaxLen) \cup ExampleRefs

\* key sets of Config.id_patterns: empty, one key, the default table, and
\* a table with the empty string as key
PatternTables ==
    { {}, {<<"g">>}, {<<"g","h">>, <<"G","H">>}, {<<>>, <<"g">>} }

TeamIds == {None, <<"T","1">>}

WorkspaceIds == {None, <<"W","1">>}

Configs ==
    [id_patterns : PatternTables, default_team_id : TeamIds,
     default_workspace_id : WorkspaceIds]

\* failures of the HTTP layer that _request turns into a ClickUpAPIError
ErrorResponses ==
    { [kind |-> "response", status_code |-> 404, is_json |-> TRUE, body |-> [err |-> "not found"]],
      [kind |-> "response", status_code |-> 403, is_json |-> FALSE, text |-> "forbidden"],
      [kind |-> "timeout"] }

\* a 2xx answer whose body is not JSON, and one whose JSON is not a task
MalformedResponses ==
    { [kind |-> "response", status_code |-> 200, is_json |-> FALSE, text |-> "<html>"],
      [kind |-> "response", status_code |-> 200, is_json |-> TRUE, body |-> [id |-> <<"x","0">>]] }

OkResponse(body) == [kind |-> "response", status_code |-> 200, is_json |-> TRUE, body |-> body]

\* answers to GET /task/{id}
TaskResponses(ref) ==
    {OkResponse(TaskJson(id, c)) : id \in {<<"x","1">>, <<"x","2">>}, c \in {None, ref}}
    \cup ErrorResponses \cup MalformedResponses

\* answers to GET /team
WorkspaceResponses ==
    {OkResponse([teams |-> ws]) :
        ws \in {<<>>, <<WorkspaceJson(<<"W","3">>), WorkspaceJson(<<"W","2">>)>>}}
    \cup ErrorResponses \cup MalformedResponses

\* custom ids of the tasks a search returns: none, the raw reference, the
\* parsed candidate (another id when it differs from the raw reference)
SearchCustomIds(ref, cand) == {None, ref, cand}

\* the i-th task of a search result has the id "s<i>"
SearchResults(ref, cand) ==
    UNION {{[i \in 1..n |-> TaskJson(<<"s", ToString(i)>>, cs[i])] :
                cs \in [1..n -> SearchCustomIds(ref, cand)]} : n \in 0..MaxResults}

\* answers to GET /team/{workspace_id}/task
SearchResponses(ref, cand) ==
    {OkResponse([tasks |-> ts]) : ts \in SearchResults(ref, cand)}
    \cup ErrorResponses \cup MalformedResponses

\* ------------------------------------------------------------------------
\* ClickUpTools._resolve_task_id as a state machine
\* ------------------------------------------------------------------------

VARIABLES
    task_id,            \* the raw reference passed by the caller
    include_subtasks,   \* the flag passed by the caller
    config,             \* client.config
    pc,                 \* the await the coroutine is suspended at
    parsed,             \* (parsed_id, custom_type) of parse_task_id
    requests,           \* the HTTP requests issued so far, with their answers
    direct_error,       \* the exception bound by "except ... as direct_error"
    custom_error,       \* the exception bound by "except ... as custom_error"
    outcome             \* what crossed the boundary of _resolve_task_id

VARIABLES
    resolutions,        \* the locals of the coroutines of concurrent resolutions
    parses,             \* the results of successive parse_task_id calls
    tool,               \* the tool call in progress: its locals and its requests
    client              \* the client method in progress: its locals and its requests

\* the state outside a single resolution
others == <<resolutions, parses, tool, client>>

vars == <<task_id, include_subtasks, config, pc, parsed, requests,
          direct_error, custom_error, outcome, resolutions, parses, tool, client>>

\* no tool call in progress
NoTool == [name |-> "none"]

\* no client method in progress
NoCall == [name |-> "none"]

NoError == [cls |-> "none"]

Running == [kind |-> "running"]

Return(value) == [kind |-> "return", value |-> value]

Raise(exc) == [kind |-> "raise", exc |-> exc]

\* the exception object raised while request number n was being handled
\* (two exceptions with equal message and status are still two objects)
RaisedBy(result, n) ==
    IF result.ok THEN NoError ELSE result.exc @@ [raised_by |-> n]

\* "except ClickUpAPIError" catches exc
Caught(exc) == exc.cls = "ClickUpAPIError"

\* the request list with the answer to the outstanding (last) request
Answered(response) == [requests EXCEPT ![Len(requests)].response = response]

Init ==
    /\ task_id \in RawRefs
    /\ include_subtasks \in BOOLEAN
    /\ config \in Configs
    /\ pc = "start"
    /\ parsed = [task_id |-> None, custom_type |-> None]
    /\ requests = <<>>
    /\ direct_error = NoError
    /\ custom_error = NoError
    /\ outcome = Running
    /\ resolutions = <<>>
    /\ parses = <<>>
    /\ tool = NoTool
    /\ client = NoCall

\* "await self.client.get_task(parsed_id, include_subtasks=include_subtasks)"
DirectLookupRequest(p, incl) == GetTaskRequest(p.task_id, incl, FALSE, None)

\* variant of MightBeCustom: the custom-ID lookup is tried for every reference
MightBeCustom_Always(p) == TRUE

\* variant of MightBeCustom: the custom-ID lookup is tried only for a
\* reference whose prefix the pattern table knows
MightBeCustom_TagOnly(p) == Truthy(p.custom_type)

\* "if custom_type or '-' in parsed_id"
MightBeCustom(p) == Truthy(p.custom_type) \/ Contains(p.task_id, "-")

\* variant of ScopeId: the fallback to the workspace id is missing
ScopeId_TeamOnly(cfg) == cfg.default_team_id

\* "team_id = default_team_id or default_workspace_id"
ScopeId(cfg) ==
    IF Truthy(cfg.default_team_id)
    THEN cfg.default_team_id
    ELSE cfg.default_workspace_id

\* variant of CustomLookupRequest: the custom flag and the scope are not
\* passed, so the direct lookup is repeated
CustomLookupRequest_NoFlag(p, incl, cfg) == GetTaskRequest(p.task_id, incl, FALSE, None)

\* "await self.client.get_task(parsed_id, include_subtasks=include_subtasks,
\*                             custom_task_ids=True, team_id=team_id)"
CustomLookupRequest(p, incl, cfg) == GetTaskRequest(p.task_id, incl, TRUE, ScopeId(cfg))

\* variant of NeedsWorkspaceLookup: the configured workspace is ignored
NeedsWorkspaceLookup_Always(cfg) == TRUE

\* search_tasks: "workspace_id = workspace_id or self.config.default_workspace_id;
\* if not workspace_id: workspaces = await self.get_workspaces()"
NeedsWorkspaceLookup(cfg) == ~Truthy(cfg.default_workspace_id)

\* variant of SearchQuery: the parsed candidate is searched
SearchQuery_Parsed(ref, p) == p.task_id

\* "tasks = await self.client.search_tasks(query=task_id)": the text searched
SearchQuery(ref, p) == ref

\* the first request search_tasks(query=task_id) issues
SearchFirstRequest(ref, p, cfg) ==
    IF NeedsWorkspaceLookup(cfg)
    THEN GetWorkspacesRequest
    ELSE SearchRequest(cfg.default_workspace_id, SearchQuery(ref, p))

\* variant of MostRelevantError: the direct-lookup error is always re-raised
MostRelevantError_Direct(p, derr, cerr) == derr

\* "raise (custom_error if custom_type else direct_error) from None"
MostRelevantError(p, derr, cerr) == IF Truthy(p.custom_type) THEN cerr ELSE derr

\* variant of PickTask: the exact match is not looked for
PickTask_First(tasks, ref) == tasks[1]

\* "for task in tasks: if hasattr(task, 'custom_id') and task.custom_id ==
\* task_id: return task" and then "return tasks[0]"
PickTask(tasks, ref) ==
    IF \E i \in DOMAIN tasks : tasks[i].custom_id = ref
    THEN tasks[CHOOSE i \in DOMAIN tasks :
                  /\ tasks[i].custom_id = ref
                  /\ \A j \in 1..(i - 1) : tasks[j].custom_id # ref]
    ELSE tasks[1]

\* variant of DirectStep: a direct lookup that timed out ends the
\* resolution, only the other API errors lead to the custom-ID lookup
DirectStep_TimeoutFails(result, p) ==
    IF result.ok THEN "return"
    ELSE IF ~Caught(result.exc) THEN "propagate"
    ELSE IF MightBeCustom(p) /\ result.exc.message # <<"Request timed out">> THEN "custom"
    ELSE "raise"

\* what the handler of the direct lookup does with the result of get_task:
\* the try/except of tools.py 605-609 and 636-638
DirectStep(result, p) ==
    IF result.ok THEN "return"
    ELSE IF ~Caught(result.exc) THEN "propagate"
    ELSE IF MightBeCustom(p) THEN "custom"
    ELSE "raise"

\* variant of CustomStep: a successful custom-ID lookup falls through to
\* the search
CustomStep_FallsThrough(result) ==
    IF ~result.ok /\ ~Caught(result.exc) THEN "propagate" ELSE "search"

\* what the handler of the custom-ID lookup does with the result of
\* get_task: the try/except of tools.py 610-623
CustomStep(result) ==
    IF result.ok THEN "return"
    ELSE IF ~Caught(result.exc) THEN "propagate"
    ELSE "search"

\* what the search fallback does with the result of search_tasks:
\* tools.py 624-635
SearchStep(result) ==
    IF ~result.ok
    THEN IF Caught(result.exc) THEN "raise" ELSE "propagate"
    ELSE IF result.value = <<>> THEN "raise"
    ELSE "return"

\* what search_tasks does with the result of get_workspaces: client.py
\* 446-449; "No workspaces found" is a ClickUpAPIError raised by search_tasks
WorkspacesStep(result) ==
    IF ~result.ok
    THEN IF Caught(result.exc) THEN "raise" ELSE "propagate"
    ELSE IF result.value = <<>> THEN "raise"
    ELSE "search"

\* tools.py 602-606: parse the reference, await the direct lookup
Start ==
    /\ pc = "start"
    /\ parsed' = parse_task_id(task_id, config.id_patterns)
    /\ requests' = <<DirectLookupRequest(parsed', include_subtasks)>>
    /\ pc' = "direct"
    /\ UNCHANGED <<task_id, include_subtasks, config, direct_error, custom_error, outcome, others>>

\* tools.py 606-620, 636-638: the direct lookup returns or raises
DirectReturns ==
    /\ pc = "direct"
    /\ \E response \in TaskResponses(task_id) :
        LET result == get_task(response)
            exc    == RaisedBy(result, Len(requests))
            step   == DirectStep(result, parsed)
        IN  /\ direct_error' = IF step \in {"custom", "raise"} THEN exc ELSE direct_error
            /\ requests' =
                 IF step = "custom"
                 THEN Append(Answered(response),
                             CustomLookupRequest(parsed, include_subtasks, config))
                 ELSE Answered(response)
            /\ pc' = IF step = "custom" THEN "custom" ELSE "done"
            /\ outcome' = CASE step = "return"    -> Return(result.value)
                            [] step = "custom"    -> outcome
                            [] OTHER              -> Raise(exc)
    /\ UNCHANGED <<task_id, include_subtasks, config, parsed, custom_error, others>>

\* tools.py 615-624 and client.py 444-446, 470: the custom-ID lookup returns
\* or raises; after a ClickUpAPIError search_tasks runs up to its first await
CustomReturns ==
    /\ pc = "custom"
    /\ \E response \in TaskResponses(task_id) :
        LET result == get_task(response)
            exc    == RaisedBy(result, Len(requests))
            step   == CustomStep(result)
        IN  /\ custom_error' = IF step = "search" THEN exc ELSE custom_error
            /\ requests' =
                 IF step = "search"
                 THEN Append(Answered(response), SearchFirstRequest(task_id, parsed, config))
                 ELSE Answered(response)
            /\ pc' = CASE step # "search"               -> "done"
                       [] NeedsWorkspaceLookup(config)  -> "workspaces"
                       [] OTHER                         -> "search"
            /\ outcome' = CASE step = "return"    -> Return(result.value)
                            [] step = "search"    -> outcome
                            [] OTHER              -> Raise(exc)
    /\ UNCHANGED <<task_id, include_subtasks, config, parsed, direct_error, others>>

\* client.py 446-449, 470 and tools.py 633-635: get_workspaces returns or
\* raises inside search_tasks; an empty list raises
\* ClickUpAPIError("No workspaces found"), which line 633 catches
WorkspacesReturn ==
    /\ pc = "workspaces"
    /\ \E response \in WorkspaceResponses :
        LET result == get_workspaces(response)
            exc    == RaisedBy(result, Len(requests))
            step   == WorkspacesStep(result)
        IN  /\ requests' =
                 IF step = "search"
                 THEN Append(Answered(response),
                             SearchRequest(result.value[1].id, SearchQuery(task_id, parsed)))
                 ELSE Answered(response)
            /\ pc' = IF step = "search" THEN "search" ELSE "done"
            /\ outcome' = CASE step = "search" -> outcome
                            [] step = "raise"  ->
                                 Raise(MostRelevantError(parsed, direct_error, custom_error))
                            [] OTHER           -> Raise(exc)
    /\ UNCHANGED <<task_id, include_subtasks, config, parsed, direct_error, custom_error, others>>

\* client.py 470-476 and tools.py 624-635: the search returns or raises; an
\* empty result raises ClickUpAPIError("Task ... not found"), which line 633
\* catches
SearchReturns ==
    /\ pc = "search"
    /\ \E response \in SearchResponses(task_id, parsed.task_id) :
        LET result == search_tasks(response)
            exc    == RaisedBy(result, Len(requests))
            step   == SearchStep(result)
        IN  /\ requests' = Answered(response)
            /\ pc' = "done"
            /\ outcome' = CASE step = "return" -> Return(PickTask(result.value, task_id))
                            [] step = "raise"  ->
                                 Raise(MostRelevantError(parsed, direct_error, custom_error))
                            [] OTHER           -> Raise(exc)
    /\ UNCHANGED <<task_id, include_subtasks, config, parsed, direct_error, custom_error, others>>

Next ==
    \/ Start
    \/ DirectReturns
    \/ CustomReturns
    \/ WorkspacesReturn
    \/ SearchReturns

Spec == Init /\ [][Next]_vars

\* ------------------------------------------------------------------------
\* Vocabulary of the properties
\* ------------------------------------------------------------------------

\* the parsed reference as a function of the inputs of the call
Cand == parse_task_id(task_id, config.id_patterns)

IsTaskRequest(r) == r.path[1] = "task"

IsDirect(r) == IsTaskRequest(r) /\ "custom_task_ids" \notin DOMAIN r.params

IsCustom(r) == IsTaskRequest(r) /\ "custom_task_ids" \in DOMAIN r.params

IsWorkspaces(r) == r.path[1] = "team" /\ Len(r.path) = 1

IsSearch(r) == r.path[1] = "team" /\ Len(r.path) = 3

IsAnswered(r) == r.response.kind # "pending"

\* the store answered with a failure that the client reports as an API
\* error: an HTTP status of 400 or more, a timeout, a transport failure
ApiFailure(response) ==
    \/ response.kind \in {"timeout", "request_error"}
    \/ response.kind = "response" /\ response.status_code >= 400

\* the store answered a task lookup with a well-formed task
TaskAnswer(response) ==
    /\ response.kind = "response"
    /\ response.status_code < 400
    /\ response.is_json
    /\ RequiredTaskFields \subseteq DOMAIN response.body

\* the store answered a search with a list of well-formed tasks
SearchAnswer(response) ==
    /\ response.kind = "response"
    /\ response.status_code < 400
    /\ response.is_json
    /\ "tasks" \in DOMAIN response.body
    /\ \A i \in DOMAIN response.body.tasks :
          RequiredTaskFields \subseteq DOMAIN response.body.tasks[i]

\* the status code a failure of the store carries (None for a timeout)
FailureStatus(response) ==
    IF response.kind = "response" THEN response.status_code ELSE None

\* outcome is the ClickUpAPIError raised for the answer to request n
RaisesErrorOf(n) ==
    /\ outcome.kind = "raise"
    /\ outcome.exc.cls = "ClickUpAPIError"
    /\ outcome.exc.raised_by = n
    /\ outcome.exc.status_code = FailureStatus(requests[n].response)

\* ------------------------------------------------------------------------
\* Properties
\* ------------------------------------------------------------------------

\* C1: a reference whose parsed candidate contains no "-" has a null custom
\* prefix and is only ever looked up directly (one request, without the
\* custom flag); as soon as that lookup is answered the resolution is over,
\* and when it failed with an API error the resolution ends with that very
\* error; no custom-ID lookup and no search is issued.
C1_PlainReferenceOnlyDirect ==
    ~Contains(Cand.task_id, "-") =>
        /\ Cand.custom_type = None
        /\ Len(requests) <= 1
        /\ \A i \in DOMAIN requests : IsDirect(requests[i])
        /\ (Len(requests) = 1 /\ IsAnswered(requests[1])) => pc = "done"
        /\ (Len(requests) = 1 /\ ApiFailure(requests[1].response)) => RaisesErrorOf(1)

\* a reference "#1"-like (candidate differs from the raw text, pattern table
\* configured) failed its direct lookup and the resolution is over
C1_Witness ==
    /\ pc = "done"
    /\ ~Contains(Cand.task_id, "-")
    /\ Cand.task_id # task_id
    /\ config.id_patterns # {}
    /\ Len(requests) = 1
    /\ ApiFailure(requests[1].response)
    /\ outcome.kind = "raise"

\* C2: a lookup that succeeds ends the resolution: the request answered with
\* a task is the last request issued (no custom-ID lookup after a successful
\* direct lookup, no search after a successful custom-ID lookup) and the
\* resolution returns the record of that answer.
C2_SuccessReturnsImmediately ==
    \A i \in DOMAIN requests :
        (IsTaskRequest(requests[i]) /\ TaskAnswer(requests[i].response)) =>
            /\ i = Len(requests)
            /\ pc = "done"
            /\ outcome.kind = "return"
            /\ outcome.value.id = requests[i].response.body.id
            /\ outcome.value.custom_id = requests[i].response.body.custom_id

\* the custom-ID lookup succeeded after the direct lookup had failed
C2_Witness ==
    /\ pc = "done"
    /\ Len(requests) = 2
    /\ ApiFailure(requests[1].response)
    /\ IsCustom(requests[2])
    /\ TaskAnswer(requests[2].response)
    /\ outcome.kind = "return"

\* the scope identifier of the configuration: default_team_id, else
\* default_workspace_id; None when neither is set
ConfiguredScope ==
    IF config.default_team_id \notin {None, <<>>}
    THEN config.default_team_id
    ELSE config.default_workspace_id

\* what C3 says of the first two requests, but for the scope identifier
C3_OrderAndFlags ==
    /\ Len(requests) >= 1 =>
          /\ requests[1].path = <<"task", Cand.task_id>>
          /\ "custom_task_ids" \notin DOMAIN requests[1].params
          /\ "team_id" \notin DOMAIN requests[1].params
    /\ (Len(requests) >= 1 /\ ApiFailure(requests[1].response)) => Len(requests) >= 2
    /\ Len(requests) >= 2 =>
          /\ ApiFailure(requests[1].response)
          /\ requests[2].path = <<"task", Cand.task_id>>
          /\ "custom_task_ids" \in DOMAIN requests[2].params
          /\ requests[2].params.custom_task_ids = <<"t","r","u","e">>

\* C3 as stated: for a reference whose prefix is in the pattern table the
\* direct lookup comes first, without custom flag and scope, then the
\* custom-ID lookup of the same candidate with custom_task_ids=true, and
\* that request carries the scope identifier.
C3_CustomLookupCarriesScope ==
    Cand.custom_type # None =>
        /\ C3_OrderAndFlags
        /\ Len(requests) >= 2 =>
              /\ "team_id" \in DOMAIN requests[2].params
              /\ requests[2].params.team_id = ConfiguredScope

\* C3 amended: as C3, but the custom-ID lookup carries the scope identifier
\* only when one is configured; with neither default_team_id nor
\* default_workspace_id set it carries the custom flag and no team_id.
C3_CustomLookupCarriesConfiguredScope ==
    Cand.custom_type # None =>
        /\ C3_OrderAndFlags
        /\ Len(requests) >= 2 =>
              IF ConfiguredScope \in {None, <<>>}
              THEN "team_id" \notin DOMAIN requests[2].params
              ELSE /\ "team_id" \in DOMAIN requests[2].params
                   /\ requests[2].params.team_id = ConfiguredScope

\* a known-prefix reference went to the custom-ID lookup with the workspace
\* id as scope (no team id configured)
C3_Witness ==
    /\ Cand.custom_type # None
    /\ Len(requests) >= 2
    /\ config.default_team_id = None
    /\ config.default_workspace_id # None
    /\ "team_id" \in DOMAIN requests[2].params

C5_ExactMatchPreferred ==
    (pc = "done" /\ Len(requests) >= 3 /\ IsSearch(requests[Len(requests)])
        /\ SearchAnswer(requests[Len(requests)].response)
        /\ requests[Len(requests)].response.body.tasks # <<>>) =>
      LET tasks   == requests[Len(requests)].response.body.tasks
          matches == {i \in DOMAIN tasks : tasks[i].custom_id = task_id}
      IN  /\ outcome.kind = "return"
          /\ IF matches = {}
             THEN outcome.value.id = tasks[1].id
             ELSE \E i \in matches :
                     /\ \A j \in matches : i <= j
                     /\ outcome.value.id = tasks[i].id
                     /\ outcome.value.custom_id = task_id

\* the search returned two tasks and only the second has the raw reference
\* as custom_id
C5_Witness ==
    /\ pc = "done"
    /\ Len(requests) >= 3
    /\ IsSearch(requests[Len(requests)])
    /\ SearchAnswer(requests[Len(requests)].response)
    /\ Len(requests[Len(requests)].response.body.tasks) >= 2
    /\ requests[Len(requests)].response.body.tasks[1].custom_id # task_id
    /\ requests[Len(requests)].response.body.tasks[2].custom_id = task_id
    /\ outcome.kind = "return"

\* the resolution is over and failed with a ClickUpAPIError after a
\* custom-ID lookup that failed
FailedAfterCustomLookup ==
    /\ pc = "done"
    /\ Len(requests) >= 2
    /\ IsCustom(requests[2])
    /\ ApiFailure(requests[2].response)
    /\ outcome.kind = "raise"
    /\ outcome.exc.cls = "ClickUpAPIError"

SearchFoundNothing ==
    /\ pc = "done"
    /\ Len(requests) >= 3
    /\ IsSearch(requests[Len(requests)])
    /\ SearchAnswer(requests[Len(requests)].response)
    /\ requests[Len(requests)].response.body.tasks = <<>>

\* C7: when the search yields no task the resolution fails, with the error
\* of the custom-ID lookup if the parser returned a tag (non-null) and with
\* the error of the direct lookup otherwise.
C7_EmptySearchSurfacesPriorError ==
    SearchFoundNothing =>
        IF Cand.custom_type # None THEN RaisesErrorOf(2) ELSE RaisesErrorOf(1)

\* the number of requests issued so far that satisfy P
Count(P(_)) == Cardinality({i \in DOMAIN requests : P(requests[i])})

IsSearchStep(r) == IsSearch(r) \/ IsWorkspaces(r)

\* C9 as stated: every strategy step makes at most one request, so a
\* resolution issues at most three requests in every configuration.
C9_AtMostThreeRequests ==
    /\ Count(IsDirect) <= 1
    /\ Count(IsCustom) <= 1
    /\ Count(IsSearchStep) <= 1
    /\ Len(requests) <= 3

\* C9 amended: the direct and the custom-ID lookup make one request each;
\* the search step makes one request when default_workspace_id is
\* configured and up to two (GET /team, then the search) when it is not, so
\* a resolution issues at most three requests with a configured workspace
\* and at most four without.
C9_RequestBudget ==
    /\ Count(IsDirect) <= 1
    /\ Count(IsCustom) <= 1
    /\ Count(IsSearchStep) <= (IF config.default_workspace_id \in {None, <<>>} THEN 2 ELSE 1)
    /\ Len(requests) <= (IF config.default_workspace_id \in {None, <<>>} THEN 4 ELSE 3)

\* without a configured workspace the search step listed the workspaces and
\* then searched: four requests
C9_Witness ==
    /\ pc = "done"
    /\ config.default_workspace_id = None
    /\ Len(requests) = 4
    /\ IsWorkspaces(requests[3])
    /\ IsSearch(requests[4])

\* C10: a finished resolution has returned a task record or raised a
\* ClickUpAPIError, whatever the store answered (not found, forbidden,
\* timeout, malformed response); nothing else crosses the boundary.
C10_RecordOrTypedError ==
    pc = "done" =>
        \/ outcome.kind = "return" /\ outcome.value.id # None
        \/ outcome.kind = "raise" /\ outcome.exc.cls = "ClickUpAPIError"

\* ------------------------------------------------------------------------
\* ClickUpTools._resolve_task_id as a function of the locals of one
\* coroutine: the steps above, on a record instead of the variables
\* ------------------------------------------------------------------------

\* the locals of a call _resolve_task_id(ref, incl) that has not run yet
ResolveInit(ref, incl) ==
    [task_id |-> ref, include_subtasks |-> incl, pc |-> "start",
     parsed |-> [task_id |-> None, custom_type |-> None], requests |-> <<>>,
     direct_error |-> NoError, custom_error |-> NoError, outcome |-> Running]

\* tools.py 602-606: parse the reference, await the direct lookup
ResolveStart(st, cfg) ==
    LET p == parse_task_id(st.task_id, cfg.id_patterns)
    IN  [st EXCEPT !.parsed = p,
                   !.requests = <<DirectLookupRequest(p, st.include_subtasks)>>,
                   !.pc = "direct"]

\* the answers the store can give to the outstanding request of st
AnswersFor(st) ==
    CASE st.pc \in {"direct", "custom"} -> TaskResponses(st.task_id)
      [] st.pc = "workspaces"           -> WorkspaceResponses
      [] st.pc = "search"               -> SearchResponses(st.task_id, st.parsed.task_id)
      [] OTHER                          -> {}

\* the requests of st with the answer to the outstanding (last) request
AnsweredIn(st, response) ==
    [st.requests EXCEPT ![Len(st.requests)].response = response]

\* tools.py 606-638 and client.py 444-476: the coroutine resumes with the
\* answer to its outstanding request and runs to its next await or its end
ResolveOn(st, cfg, response) ==
    LET n == Len(st.requests)
    IN  CASE st.pc = "direct" ->
               LET result == get_task(response)
                   exc    == RaisedBy(result, n)
                   step   == DirectStep(result, st.parsed)
               IN  [st EXCEPT
                      !.direct_error = IF step \in {"custom", "raise"} THEN exc ELSE @,
                      !.requests = IF step = "custom"
                                   THEN Append(AnsweredIn(st, response),
                                               CustomLookupRequest(st.parsed, st.include_subtasks, cfg))
                                   ELSE AnsweredIn(st, response),
                      !.pc = IF step = "custom" THEN "custom" ELSE "done",
                      !.outcome = CASE step = "return" -> Return(result.value)
                                    [] step = "custom" -> @
                                    [] OTHER           -> Raise(exc)]
          [] st.pc = "custom" ->
               LET result == get_task(response)
                   exc    == RaisedBy(result, n)
                   step   == CustomStep(result)
               IN  [st EXCEPT
                      !.custom_error = IF step = "search" THEN exc ELSE @,
                      !.requests = IF step = "search"
                                   THEN Append(AnsweredIn(st, response),
                                               SearchFirstRequest(st.task_id, st.parsed, cfg))
                                   ELSE AnsweredIn(st, response),
                      !.pc = CASE step # "search"            -> "done"
                               [] NeedsWorkspaceLookup(cfg)  -> "workspaces"
                               [] OTHER                      -> "search",
                      !.outcome = CASE step = "return" -> Return(result.value)
                                    [] step = "search" -> @
                                    [] OTHER           -> Raise(exc)]
          [] st.pc = "workspaces" ->
               LET result == get_workspaces(response)
                   exc    == RaisedBy(result, n)
                   step   == WorkspacesStep(result)
               IN  [st EXCEPT
                      !.requests = IF step = "search"
                                   THEN Append(AnsweredIn(st, response),
                                               SearchRequest(result.value[1].id,
                                                             SearchQuery(st.task_id, st.parsed)))
                                   ELSE AnsweredIn(st, response),
                      !.pc = IF step = "search" THEN "search" ELSE "done",
                      !.outcome = CASE step = "search" -> @
                                    [] step = "raise"  ->
                                         Raise(MostRelevantError(st.parsed, st.direct_error,
                                                                 st.custom_error))
                                    [] OTHER           -> Raise(exc)]
          [] st.pc = "search" ->
               LET result == search_tasks(response)
                   exc    == RaisedBy(result, n)
                   step   == SearchStep(result)
               IN  [st EXCEPT
                      !.requests = AnsweredIn(st, response),
                      !.pc = "done",
                      !.outcome = CASE step = "return" ->
                                         Return(PickTask(result.value, st.task_id))
                                    [] step = "raise"  ->
                                         Raise(MostRelevantError(st.parsed, st.direct_error,
                                                                 st.custom_error))
                                    [] OTHER           -> Raise(exc)]
          [] OTHER -> st

\* the coroutine run alone against the answers, in order: it consumes one
\* answer per request and ignores the answers left when it has ended
RECURSIVE ResolveRun(_, _, _)
ResolveRun(st, cfg, answers) ==
    IF st.pc = "start" THEN ResolveRun(ResolveStart(st, cfg), cfg, answers)
    ELSE IF st.pc = "done" \/ answers = <<>> THEN st
    ELSE ResolveRun(ResolveOn(st, cfg, answers[1]), cfg, Tail(answers))

\* the answers recorded in a list of requests, in order
AnswersIn(reqs) ==
    LET done == SelectSeq(reqs, LAMBDA r : r.response.kind # "pending")
    IN  [i \in DOMAIN done |-> done[i].response]

\* the locals of the resolution of the variables, as one record
CurrentResolution ==
    [task_id |-> task_id, include_subtasks |-> include_subtasks, pc |-> pc,
     parsed |-> parsed, requests |-> requests, direct_error |-> direct_error,
     custom_error |-> custom_error, outcome |-> outcome]

\* the steps on the variables and the steps on the record are the same
\* steps: a started resolution is where the run of the record form on the
\* answers it has received is
RecordFormAgrees ==
    pc # "start" =>
        CurrentResolution = ResolveRun(ResolveInit(task_id, include_subtasks), config,
                                       AnswersIn(requests))

\* ------------------------------------------------------------------------
\* Concurrent resolutions: several coroutines of _resolve_task_id on one
\* ClickUpTools object, interleaved at their awaits
\* ------------------------------------------------------------------------

\* number of concurrent calls
NumCalls == 2

\* the variables of the single resolution while another part of the program
\* is the one that runs
ResolverIdle ==
    /\ task_id = <<>>
    /\ include_subtasks = FALSE
    /\ pc = "idle"
    /\ parsed = [task_id |-> None, custom_type |-> None]
    /\ requests = <<>>
    /\ direct_error = NoError
    /\ custom_error = NoError
    /\ outcome = Running

\* references of the concurrent calls: a custom id and a plain "#" reference
ConcRefs == { <<"g","-","1">>, <<"#","1">> }

\* configurations of the concurrent calls: with and without a workspace
ConcConfigs ==
    { [id_patterns |-> {<<"g">>}, default_team_id |-> None, default_workspace_id |-> w] :
        w \in WorkspaceIds }

\* the answers of the store to the outstanding request of st that the
\* concurrent calls are run against: a selection of AnswersFor(st)
ConcAnswers(st) ==
    LET failures == {r \in ErrorResponses : r.kind = "timeout" \/ r.is_json}
    IN  CASE st.pc \in {"direct", "custom"} ->
               {OkResponse(TaskJson(<<"x","1">>, None))} \cup failures \cup MalformedResponses
          [] st.pc = "workspaces" ->
               {r \in WorkspaceResponses : r \notin ErrorResponses} \cup failures
          [] st.pc = "search" ->
               {OkResponse([tasks |-> <<>>]),
                OkResponse([tasks |-> <<TaskJson(<<"s","1">>, st.task_id)>>])} \cup failures
          [] OTHER -> {}

\* variant of Deliver: the bound exceptions are kept on the shared tools
\* object instead of in the locals of the coroutine
Deliver_SharedErrors(rs, c, st) ==
    [q \in DOMAIN rs |->
        IF q = c THEN st
        ELSE [rs[q] EXCEPT !.direct_error = st.direct_error,
                           !.custom_error = st.custom_error]]

\* the coroutine c continues with the locals st: parsed_id, custom_type,
\* direct_error, custom_error, team_id, tasks are local variables of the
\* call, nothing is assigned to self or self.client
Deliver(rs, c, st) == [rs EXCEPT ![c] = st]

InitConc ==
    /\ ResolverIdle
    /\ config \in ConcConfigs
    /\ resolutions \in [1..NumCalls -> {ResolveInit(ref, FALSE) : ref \in ConcRefs}]
    /\ parses = <<>>
    /\ tool = NoTool
    /\ client = NoCall

\* the event loop runs call c from its start to its first await
ConcStart(c) ==
    /\ resolutions[c].pc = "start"
    /\ resolutions' = Deliver(resolutions, c, ResolveStart(resolutions[c], config))
    /\ UNCHANGED <<task_id, include_subtasks, config, pc, parsed, requests,
                   direct_error, custom_error, outcome, parses, tool, client>>

\* the store answers the outstanding request of call c and the event loop
\* runs c to its next await or its end
ConcAnswer(c) ==
    /\ \E response \in ConcAnswers(resolutions[c]) :
          resolutions' = Deliver(resolutions, c, ResolveOn(resolutions[c], config, response))
    /\ UNCHANGED <<task_id, include_subtasks, config, pc, parsed, requests,
                   direct_error, custom_error, outcome, parses, tool, client>>

NextConc ==
    \/ \E c \in DOMAIN resolutions : ConcStart(c)
    \/ \E c \in DOMAIN resolutions : ConcAnswer(c)

SpecConc == InitConc /\ [][NextConc]_vars

\* call c is where it would be had it run alone against the answers it got
AsIfAlone(c) ==
    resolutions[c].pc # "start" =>
        resolutions[c] =
            ResolveRun(ResolveInit(resolutions[c].task_id, resolutions[c].include_subtasks),
                       config, AnswersIn(resolutions[c].requests))

UnderTable(t) ==
    ResolveRun(ResolveInit(task_id, include_subtasks),
               [config EXCEPT !.id_patterns = t], AnswersIn(requests))

\* C12: the pattern table does not change the lookups: for the same raw
\* reference and the same answers of the store, under every pattern table
\* the same requests are issued in the same order with the same arguments,
\* and a record returned on success is the same record.
C12_TableDoesNotChangeLookups ==
    pc = "done" =>
        \A t \in PatternTables \ {config.id_patterns} :
            /\ UnderTable(t).requests = requests
            /\ outcome.kind = "return" => UnderTable(t).outcome = outcome

\* a reference with a known prefix was found by the custom-ID lookup, and
\* there is a table that does not know the prefix
C12_Witness ==
    /\ pc = "done"
    /\ outcome.kind = "return"
    /\ Len(requests) = 2
    /\ Truthy(parsed.custom_type)
    /\ \E t \in PatternTables :
          parse_task_id(task_id, t).custom_type = None

\* ------------------------------------------------------------------------
\* parse_task_id on its own: references are parsed, and the candidate of a
\* parse is parsed again
\* ------------------------------------------------------------------------

\* most pieces a drawn URL has after its network location
MaxPieces == 3

\* characters of the references that are not URLs
ParseAlphabet == Alphabet \cup {" ", "G"}

\* pieces of the part of a URL after the network location: path segments
\* ("t", ids with and without a prefix, a segment that ends in a blank),
\* an empty segment, a query, parameters, a fragment
UrlPieces ==
    { <<"/">>, <<"/","t">>, <<"/","G","-","1">>, <<"/","1">>, <<"/","a"," ">>,
      <<"?","x">>, <<";","p">>, <<"#","f">> }

RECURSIVE UrlTails(_)
UrlTails(n) ==
    IF n = 0 THEN {<<>>}
    ELSE UrlTails(n - 1) \cup {t \o piece : t \in UrlTails(n - 1), piece \in UrlPieces}

\* network locations: a host name, none, and a malformed IPv6 literal
UrlHosts == { <<"a">>, <<>>, <<"[">> }

UrlRefs ==
    {HTTPS \o host \o t : host \in UrlHosts, t \in UrlTails(MaxPieces)}
    \cup {HTTP \o <<"a">> \o t : t \in UrlTails(MaxPieces)}
    \cup {<<" ">> \o HTTPS \o <<"a">> \o t \o <<" ">> : t \in UrlTails(MaxPieces)}

\* the references parse_task_id is called with
\* references that combine the forms: a "#" reference between blanks, a
\* team URL with a query, a "#" in front of a URL
ParseExamples ==
    { <<" ","#","g","-","1"," ">>,
      HTTPS \o <<"a","/","t","/","1","/","G","-","1","?","x","=","/","t","/","2">>,
      <<"#">> \o HTTPS \o <<"[">> }

ParseRefs ==
    SeqsUpTo(ParseAlphabet, MaxLen) \cup ExampleRefs \cup UrlRefs \cup ParseExamples

ValueError == [cls |-> "ValueError", message |-> <<"Invalid IPv6 URL">>]

\* one call parse_task_id(task_ref, id_patterns) and how it ended
ParseCall(task_ref, id_patterns) ==
    [task_ref    |-> task_ref,
     id_patterns |-> id_patterns,
     outcome     |-> IF UrlParseRaises(Strip(task_ref))
                     THEN Raise(ValueError)
                     ELSE Return(parse_task_id(task_ref, id_patterns))]

InitParse ==
    /\ task_id \in ParseRefs
    /\ config \in {cfg \in Configs : cfg.default_team_id = None
                                     /\ cfg.default_workspace_id = None}
    /\ include_subtasks = FALSE
    /\ pc = "idle"
    /\ parsed = [task_id |-> None, custom_type |-> None]
    /\ requests = <<>>
    /\ direct_error = NoError
    /\ custom_error = NoError
    /\ outcome = Running
    /\ resolutions = <<>>
    /\ parses = <<>>
    /\ tool = NoTool
    /\ client = NoCall

\* parse_task_id(task_id, self.config.id_patterns)
Parse ==
    /\ parses = <<>>
    /\ parses' = <<ParseCall(task_id, config.id_patterns)>>
    /\ UNCHANGED <<task_id, include_subtasks, config, pc, parsed, requests,
                   direct_error, custom_error, outcome, resolutions, tool, client>>

\* the candidate that was returned is given to parse_task_id again
Reparse ==
    /\ Len(parses) = 1
    /\ parses[1].outcome.kind = "return"
    /\ parses' = Append(parses, ParseCall(parses[1].outcome.value.task_id,
                                          config.id_patterns))
    /\ UNCHANGED <<task_id, include_subtasks, config, pc, parsed, requests,
                   direct_error, custom_error, outcome, resolutions, tool, client>>

NextParse == Parse \/ Reparse

SpecParse == InitParse /\ [][NextParse]_vars

\* ------------------------------------------------------------------------
\* Vocabulary of the statements about parse_task_id
\* ------------------------------------------------------------------------

\* the calls of parse_task_id that were made
Calls == {parses[i] : i \in DOMAIN parses}

Returned(call) == call.outcome.kind = "return"

Candidate(call) == call.outcome.value.task_id

Tag(call) == call.outcome.value.custom_type

\* r without the blanks at its two ends
Trimmed(r) ==
    LET solid == {i \in 1..Len(r) : r[i] # " "}
    IN  IF solid = {} THEN <<>>
        ELSE SubSeq(r, CHOOSE i \in solid : \A j \in solid : i <= j,
                       CHOOSE i \in solid : \A j \in solid : i >= j)

IsUrlRef(s) == StartsWith(s, HTTP) \/ StartsWith(s, HTTPS)

\* the non-empty segments of the path of the URL s
Segments(s) == PathParts(UrlPath(s))

\* s is a URL with a path of two or more segments, the first of them "t"
HasTaskPath(s) ==
    /\ IsUrlRef(s)
    /\ ~UrlParseRaises(s)
    /\ Len(Segments(s)) >= 2
    /\ Segments(s)[1] = <<"t">>

\* c occurs in r, letter for letter
OccursIn(c, r) ==
    \E i \in 1..(Len(r) + 1) :
        i + Len(c) - 1 <= Len(r) /\ SubSeq(r, i, i + Len(c) - 1) = c

C14_FallbackOrOriginal ==
    \A call \in Calls :
        LET s == Trimmed(call.task_ref)
        IN  (IsUrlRef(s) /\ ~HasTaskPath(s)) =>
                /\ Returned(call)
                /\ IF RegexTaskId(UrlPath(s)) # None
                   THEN Candidate(call) = RegexTaskId(UrlPath(s))
                   ELSE Candidate(call) = s /\ Tag(call) = None

\* C15: for every reference that is not a URL the blanks at its ends are
\* removed first; when what remains starts with "#" the candidate is the
\* rest after that one "#", otherwise it is what remains; the empty
\* reference gives ("", null).
C15_HashAndTrim ==
    \A call \in Calls :
        LET s == Trimmed(call.task_ref)
        IN  ~IsUrlRef(s) =>
                /\ Returned(call)
                /\ Candidate(call) = IF s # <<>> /\ s[1] = "#" THEN Tail(s) ELSE s
                /\ call.task_ref = <<>> =>
                       call.outcome.value = [task_id |-> <<>>, custom_type |-> None]

\* " #g-1 " gave "g-1"
C15_Witness ==
    /\ parses # <<>>
    /\ parses[1].task_ref = <<" ","#","g","-","1"," ">>
    /\ Returned(parses[1])
    /\ Candidate(parses[1]) = <<"g","-","1">>

\* the part of c before its first "-", in lower case
LowerPrefix(c) == Lower(Take(c, FindFirst(c, {"-"}, 1) - 1))

\* the table of the call knows the prefix of the candidate c
KnownPrefix(call, c) ==
    /\ call.id_patterns # {}
    /\ Contains(c, "-")
    /\ LowerPrefix(c) \in call.id_patterns

\* C16: the tag is non-null exactly when a pattern table was supplied, the
\* candidate contains "-" and the lower-cased part before the first "-" is
\* a key of the table; the tag is then that lower-cased part; the
\* candidate is written as it is in the reference, upper and lower case
\* kept.
C16_TagIffKnownPrefix ==
    \A call \in Calls :
        Returned(call) =>
            /\ (Tag(call) # None) <=> KnownPrefix(call, Candidate(call))
            /\ KnownPrefix(call, Candidate(call)) => Tag(call) = LowerPrefix(Candidate(call))
            /\ OccursIn(Candidate(call), call.task_ref)

\* "GH-1" gave the tag "gh" and kept its capitals
C16_Witness ==
    /\ parses # <<>>
    /\ Returned(parses[1])
    /\ Candidate(parses[1]) = <<"G","H","-","1">>
    /\ Tag(parses[1]) = <<"g","h">>

\* C17 as stated: for every reference and every table, parsing the
\* returned candidate again returns that same candidate.
C17_Idempotent ==
    Len(parses) = 2 =>
        /\ Returned(parses[2])
        /\ Candidate(parses[2]) = Candidate(parses[1])

\* a plain id: no blank at either end, no "#" in front, not a URL
PlainId(c) == c = Trimmed(c) /\ ~StartsWith(c, <<"#">>) /\ ~IsUrlRef(c)

\* C17: parsing is idempotent on plain candidates: for every reference and
\* every table, when the returned candidate is a plain id (no blank at
\* either end, no "#" in front, not a URL), parsing it again returns the
\* same candidate with the same tag.
C17_IdempotentOnPlainIds ==
    (Len(parses) = 2 /\ PlainId(Candidate(parses[1]))) =>
        /\ Returned(parses[2])
        /\ parses[2].outcome.value = parses[1].outcome.value

\* the candidate taken out of a URL was parsed again
C17_Witness ==
    /\ Len(parses) = 2
    /\ IsUrlRef(parses[1].task_ref)
    /\ PlainId(Candidate(parses[1]))
    /\ Tag(parses[1]) # None
    /\ Returned(parses[2])

\* ------------------------------------------------------------------------
\* The tools get_task, bulk_update_tasks and bulk_move_tasks: each call is a
\* coroutine that awaits resolutions and requests of its own
\* ------------------------------------------------------------------------

\* most task ids one bulk call is given
MaxIds == 2

\* str(e)
Str(exc) == IF exc.cls = "ClickUpAPIError" THEN exc.message ELSE <<exc.cls>>

\* the request ClickUpClient.get_subtasks issues once it knows the workspace
SubtasksRequest(workspace_id, parent_task_id) ==
    [method |-> "GET", path |-> <<"team", workspace_id, "task">>,
     params |-> [parent |-> parent_task_id, include_closed |-> <<"t","r","u","e">>],
     response |-> Pending]

\* ClickUpClient.get_subtasks after its team request was answered: a
\* ClickUpAPIError of the request gives the empty list
get_subtasks(response) ==
    LET data == _request(response)
    IN  IF ~data.ok
        THEN IF Caught(data.exc) THEN [ok |-> TRUE, value |-> <<>>] ELSE data
        ELSE IF "tasks" \notin DOMAIN data.value THEN [ok |-> TRUE, value |-> <<>>]
        ELSE TaskList(data.value.tasks)

\* the request of ClickUpClient.update_task and of the move
PutTaskRequest(id, json) ==
    [method |-> "PUT", path |-> <<"task", id>>, json |-> json, response |-> Pending]

\* ClickUpClient.update_task after its request was answered
update_task(response) ==
    LET data == _request(response)
    IN  IF data.ok THEN Task(data.value) ELSE data

\* the dictionary the get_task tool builds from the resolved task (the
\* keys that depend on which task it is)
TaskResult(task) ==
    IF Truthy(task.custom_id)
    THEN [id |-> task.id, custom_id |-> task.custom_id]
    ELSE [id |-> task.id]

\* the dictionary the get_subtasks tool returns
SubtasksResult(task, subtasks) ==
    [parent_id |-> task.id,
     subtasks  |-> [i \in DOMAIN subtasks |-> [id |-> subtasks[i].id]],
     count     |-> Len(subtasks)]

\* "except Exception as e: return {'error': ...}" of the get_subtasks tool
SubtasksError(parent_task_id, exc) ==
    [error |-> <<"Failed to get subtasks for", parent_task_id, Str(exc)>>]

\* references given to the tools, and the parent id the store reports
ToolRefs == ConcRefs

ParentId == <<"p","1">>

\* the answers of the store to the outstanding request of the tool call t
ToolAnswers(t) ==
    LET failures == {r \in ErrorResponses : r.kind = "response" /\ r.is_json}
    IN  CASE t.pc = "resolve" ->
               ConcAnswers(t.res) \cup
               (IF t.res.pc \in {"direct", "custom"}
                THEN {OkResponse(SubtaskJson(<<"x","2">>, ParentId))} ELSE {})
          [] t.pc = "subtasks_resolve" ->
               {OkResponse(TaskJson(<<"x","3">>, None))} \cup failures \cup MalformedResponses
          [] t.pc = "subtasks_workspaces" ->
               {r \in WorkspaceResponses : r \notin ErrorResponses} \cup failures
          [] t.pc = "subtasks_list" ->
               {OkResponse([tasks |-> <<>>]),
                OkResponse([tasks |-> <<SubtaskJson(<<"c","1">>, <<"x","3">>)>>])}
               \cup failures \cup MalformedResponses
          [] t.pc = "update" ->
               {OkResponse(TaskJson(t.task.id, None)), OkResponse([id |-> t.task.id])}
               \cup failures
          [] OTHER -> {}

\* the tool call returns value / raises exc
ToolReturn(t, value) == [t EXCEPT !.pc = "done", !.outcome = Return(value)]

ToolRaise(t, exc) == [t EXCEPT !.pc = "done", !.outcome = Raise(exc)]

\* the tool call awaits its own request req
ToolAwait(t, next, req) == [t EXCEPT !.pc = next, !.requests = Append(@, req)]

\* the tool call awaits the resolution of ref
ToolResolve(t, next, ref, incl, cfg) ==
    [t EXCEPT !.pc = next, !.res = ResolveStart(ResolveInit(ref, incl), cfg)]

\* get_task: 'result["subtasks"] = subtasks; return result'
WithSubtasks(t, subtasks) ==
    ToolReturn(t, [subtasks |-> subtasks] @@ t.result)

\* variant of BulkCatches: the loop catches the errors of the API only
BulkCatches_ApiOnly(exc) == Caught(exc)

\* "except Exception as e" of the bulk loops
BulkCatches(exc) == TRUE

\* the name of the list of the ids that went through
SuccessKey(name) == IF name = "bulk_update_tasks" THEN "updated" ELSE "moved"

\* the bulk loop goes on after the id at t.i with the results so far
BulkContinue(t, results, cfg) ==
    LET r == [t EXCEPT !.result = results]
    IN  IF t.i = Len(t.task_ids)
        THEN ToolReturn(r, results)
        ELSE ToolResolve([r EXCEPT !.i = t.i + 1], "resolve", t.task_ids[t.i + 1], FALSE, cfg)

\* 'results["updated"].append(task_id)' / 'results["moved"].append(task_id)'
BulkSucceeded(t, cfg) ==
    BulkContinue(t, [t.result EXCEPT ![SuccessKey(t.name)] = Append(@, t.task_ids[t.i])], cfg)

\* 'results["failed"].append({"task_id": task_id, "error": str(e)})', or
\* the exception leaves the loop
BulkFailed(t, exc, cfg) ==
    IF BulkCatches(exc)
    THEN BulkContinue(t, [t.result EXCEPT !.failed =
                            Append(@, [task_id |-> t.task_ids[t.i], error |-> Str(exc)])], cfg)
    ELSE ToolRaise(t, exc)

\* the locals of a tool call before its first statement
ToolInit(name, task_ids, incl) ==
    [name |-> name, task_ids |-> task_ids, include_subtasks |-> incl, i |-> 1,
     pc |-> "start", res |-> ResolveInit(<<>>, FALSE), task |-> None,
     parent_task |-> None, requests |-> <<>>, result |-> <<>>, outcome |-> Running]

\* get_task after "task = await self._resolve_task_id(task_id,
\* include_subtasks)" has ended: tools.py 703-739
AfterGetTaskResolved(t, cfg) ==
    LET out == t.res.outcome
    IN  IF out.kind = "raise"
        THEN IF Caught(out.exc)
             THEN ToolReturn(t, [error |-> <<"Failed to get task", t.task_ids[1],
                                             Str(out.exc)>>])
             ELSE ToolRaise(t, out.exc)
        ELSE LET r == [t EXCEPT !.task = out.value, !.result = TaskResult(out.value)]
             IN  IF t.include_subtasks /\ Truthy(out.value.parent)
                 THEN ToolResolve(r, "subtasks_resolve", out.value.parent, FALSE, cfg)
                 ELSE ToolReturn(r, r.result)

\* a bulk loop after "resolved_task = await self._resolve_task_id(task_id)"
\* has ended: tools.py 1115-1120 and 1131-1138
AfterBulkResolved(t, cfg) ==
    LET out == t.res.outcome
    IN  IF out.kind = "raise"
        THEN BulkFailed(t, out.exc, cfg)
        ELSE ToolAwait([t EXCEPT !.task = out.value], "update",
                       PutTaskRequest(out.value.id,
                                      IF t.name = "bulk_update_tasks"
                                      THEN "update_request" ELSE "list"))

\* the get_subtasks tool after "task = await
\* self._resolve_task_id(parent_task_id)" has ended, up to the first await
\* of ClickUpClient.get_subtasks: tools.py 867-871, client.py 508-523
AfterParentResolved(t, cfg) ==
    LET out == t.res.outcome
    IN  IF out.kind = "raise"
        THEN WithSubtasks(t, SubtasksError(t.task.parent, out.exc))
        ELSE LET r == [t EXCEPT !.parent_task = out.value]
             IN  IF Truthy(cfg.default_workspace_id)
                 THEN ToolAwait(r, "subtasks_list",
                                SubtasksRequest(cfg.default_workspace_id, out.value.id))
                 ELSE ToolAwait(r, "subtasks_workspaces", GetWorkspacesRequest)

\* the tool call t goes on with the answer to its outstanding request, up
\* to its next await or its end
ToolOn(t, cfg, response) ==
    IF t.pc \in {"resolve", "subtasks_resolve"}
    THEN LET r == [t EXCEPT !.res = ResolveOn(t.res, cfg, response)]
         IN  IF r.res.pc # "done" THEN r
             ELSE IF t.pc = "subtasks_resolve" THEN AfterParentResolved(r, cfg)
             ELSE IF t.name = "get_task" THEN AfterGetTaskResolved(r, cfg)
             ELSE AfterBulkResolved(r, cfg)
    ELSE LET r == [t EXCEPT !.requests[Len(t.requests)].response = response]
         IN  CASE t.pc = "subtasks_workspaces" ->
                    LET w == get_workspaces(response)
                    IN  IF ~w.ok
                        THEN WithSubtasks(r, SubtasksError(t.task.parent, w.exc))
                        ELSE IF w.value = <<>>
                        THEN WithSubtasks(r, SubtasksResult(t.parent_task, <<>>))
                        ELSE ToolAwait(r, "subtasks_list",
                                       SubtasksRequest(w.value[1].id, t.parent_task.id))
               [] t.pc = "subtasks_list" ->
                    LET s == get_subtasks(response)
                    IN  IF s.ok
                        THEN WithSubtasks(r, SubtasksResult(t.parent_task, s.value))
                        ELSE WithSubtasks(r, SubtasksError(t.task.parent, s.exc))
               [] t.pc = "update" ->
                    LET u == IF t.name = "bulk_update_tasks"
                             THEN update_task(response) ELSE _request(response)
                    IN  IF u.ok THEN BulkSucceeded(r, cfg) ELSE BulkFailed(r, u.exc, cfg)
               [] OTHER -> t

InitTools ==
    /\ ResolverIdle
    /\ config \in ConcConfigs
    /\ resolutions = <<>>
    /\ parses = <<>>
    /\ tool = NoTool
    /\ client = NoCall

\* call_tool("get_task", {"task_id": ref, "include_subtasks": incl})
CallGetTask ==
    /\ tool = NoTool
    /\ \E ref \in ToolRefs, incl \in BOOLEAN :
          tool' = ToolResolve(ToolInit("get_task", <<ref>>, incl), "resolve",
                              ref, incl, config)
    /\ UNCHANGED <<task_id, include_subtasks, config, pc, parsed, requests,
                   direct_error, custom_error, outcome, resolutions, parses, client>>

\* call_tool("bulk_update_tasks" / "bulk_move_tasks", {"task_ids": ids, ...})
CallBulk ==
    /\ tool = NoTool
    /\ \E name \in {"bulk_update_tasks", "bulk_move_tasks"},
          ids \in SeqsUpTo(ToolRefs, MaxIds) :
          LET t == [ToolInit(name, ids, FALSE) EXCEPT
                        !.result = [k \in {SuccessKey(name), "failed"} |-> <<>>]]
          IN  tool' = IF ids = <<>> THEN ToolReturn(t, t.result)
                      ELSE ToolResolve(t, "resolve", ids[1], FALSE, config)
    /\ UNCHANGED <<task_id, include_subtasks, config, pc, parsed, requests,
                   direct_error, custom_error, outcome, resolutions, parses, client>>

\* the store answers the outstanding request of the tool call
ToolAnswer ==
    /\ tool.name # "none"
    /\ \E response \in ToolAnswers(tool) :
          tool' = ToolOn(tool, config, response)
    /\ UNCHANGED <<task_id, include_subtasks, config, pc, parsed, requests,
                   direct_error, custom_error, outcome, resolutions, parses, client>>

NextTools == CallGetTask \/ CallBulk \/ ToolAnswer

SpecTools == InitTools /\ [][NextTools]_vars

\* ------------------------------------------------------------------------
\* Statements about the tools
\* ------------------------------------------------------------------------

ToolDone(names) == tool.name \in names /\ tool.pc = "done"

\* every lookup of the resolution of the reference was answered 404
NotFoundEverywhere ==
    /\ tool.res.task_id = tool.task_ids[1]
    /\ tool.res.outcome.kind = "raise"
    /\ \A n \in DOMAIN tool.res.requests :
          /\ tool.res.requests[n].response.kind = "response"
          /\ tool.res.requests[n].response.status_code = 404

\* C18: when the store answers the fetch by id with a 404 ClickUpAPIError
\* and the reference does not resolve, the get_task tool raises a
\* ClickUpAPIError with status code 404 to its caller.
C18_NotFoundIsRaised ==
    (ToolDone({"get_task"}) /\ NotFoundEverywhere) =>
        /\ tool.outcome.kind = "raise"
        /\ tool.outcome.exc.cls = "ClickUpAPIError"
        /\ tool.outcome.exc.status_code = 404

\* the get_task tool returned the dictionary of a task
GetTaskSucceeded ==
    /\ ToolDone({"get_task"})
    /\ tool.outcome.kind = "return"
    /\ "id" \in DOMAIN tool.outcome.value

\* C19: when get_task is called with include_subtasks = true, the
\* dictionary it returns holds the subtasks of the resolved task itself:
\* the tasks the store lists for parent = the id of the resolved task.
C19_SubtasksOfResolvedTask ==
    (GetTaskSucceeded /\ tool.include_subtasks) =>
        /\ "subtasks" \in DOMAIN tool.outcome.value
        /\ \E n \in DOMAIN tool.requests :
              /\ "parent" \in DOMAIN tool.requests[n].params
              /\ tool.requests[n].params.parent = tool.outcome.value.id

\* the ids of task_ids at the positions where f has the value b
Chosen(ids, f, b) ==
    LET at == SelectSeq([i \in DOMAIN ids |-> i], LAMBDA i : f[i] = b)
    IN  [j \in DOMAIN at |-> ids[at[j]]]

\* the two lists of results split the ids task_ids[1..n], each list in the
\* order of the input
SplitsInOrder(results, name, ids) ==
    \E f \in [DOMAIN ids -> BOOLEAN] :
        /\ results[SuccessKey(name)] = Chosen(ids, f, TRUE)
        /\ [j \in DOMAIN results.failed |-> results.failed[j].task_id] = Chosen(ids, f, FALSE)

BulkTools == {"bulk_update_tasks", "bulk_move_tasks"}

\* C20: bulk_update_tasks and bulk_move_tasks take the ids in the order of
\* the input and never raise: while the i-th id is worked on, the ids
\* before it are split over the success list and the failed list in input
\* order; the call ends by returning, and then every occurrence of an id
\* is in exactly one of the two lists, in input order, whatever failed
\* before it.
C20_BulkAccountsForEveryId ==
    tool.name \in BulkTools =>
        /\ tool.outcome.kind # "raise"
        /\ tool.pc \in {"resolve", "update"} =>
              /\ tool.res.task_id = tool.task_ids[tool.i]
              /\ SplitsInOrder(tool.result, tool.name, SubSeq(tool.task_ids, 1, tool.i - 1))
        /\ tool.pc = "done" =>
              /\ tool.outcome = Return(tool.result)
              /\ SplitsInOrder(tool.result, tool.name, tool.task_ids)

\* the first of two ids failed, the second went through
C20_Witness ==
    /\ ToolDone(BulkTools)
    /\ Len(tool.task_ids) = 2
    /\ tool.outcome.kind = "return"
    /\ Len(tool.outcome.value.failed) = 1
    /\ tool.outcome.value.failed[1].task_id = tool.task_ids[1]
    /\ tool.outcome.value[SuccessKey(tool.name)] = <<tool.task_ids[2]>>

\* ------------------------------------------------------------------------
\* The errors that leave a resolution, and the order of the strategies
\* ------------------------------------------------------------------------

\* the resolution is over and a ClickUpAPIError left it
FailedWithApiError ==
    /\ pc = "done"
    /\ outcome.kind = "raise"
    /\ outcome.exc.cls = "ClickUpAPIError"

\* C27: every ClickUpAPIError that leaves _resolve_task_id is the error of
\* the direct lookup or of the custom-ID lookup of that call, message and
\* status code unchanged; an error of the search step (timeout, forbidden,
\* "not found" for an empty result) is never surfaced: it is replaced by
\* the custom-ID error when the parser recognised a prefix (non-null tag)
\* and by the direct-lookup error otherwise.
C27_SearchErrorsReplaced ==
    FailedWithApiError =>
        /\ RaisesErrorOf(1) \/ (Len(requests) >= 2 /\ RaisesErrorOf(2))
        /\ Len(requests) >= 3 =>
              IF Cand.custom_type # None THEN RaisesErrorOf(2) ELSE RaisesErrorOf(1)

\* C29: the fallback chain does not look at the kind of the error: for a
\* candidate with "-", every ClickUpAPIError of the direct lookup (404,
\* forbidden, timeout) is followed by the custom-ID lookup and every
\* ClickUpAPIError of the custom-ID lookup by the search step, so such a
\* resolution fails with an API error only after all three strategies.
C29_EveryApiErrorFallsThrough ==
    (pc # "start" /\ Contains(Cand.task_id, "-")) =>
        /\ ApiFailure(requests[1].response) =>
              Len(requests) >= 2 /\ IsCustom(requests[2])
        /\ (Len(requests) >= 2 /\ ApiFailure(requests[2].response)) =>
              Len(requests) >= 3 /\ IsSearchStep(requests[3])
        /\ FailedWithApiError =>
              /\ Len(requests) >= 3
              /\ IsDirect(requests[1]) /\ IsCustom(requests[2]) /\ IsSearchStep(requests[3])

\* a reference with "-" failed after a direct lookup that timed out, a
\* custom-ID lookup that was forbidden and a search that was not
C29_Witness ==
    /\ FailedWithApiError
    /\ Contains(Cand.task_id, "-")
    /\ requests[1].response.kind = "timeout"
    /\ Len(requests) >= 3
    /\ requests[2].response.kind = "response"
    /\ requests[2].response.status_code = 403
    /\ IsSearch(requests[Len(requests)])

\* ------------------------------------------------------------------------
\* ClickUpClient: _request, get_workspace_members, get_subtasks, list_docs
\* and search_docs as coroutines of their own
\* ------------------------------------------------------------------------

\* most members of one group, and most groups, the groups endpoint reports
MaxMembers == 2

MaxGroups == 2

\* dict.get(key, default)
Get(data, key, default) == IF key \in DOMAIN data THEN data[key] ELSE default

\* ClickUpClient._request_v3 on the answer of the HTTP layer: the same
\* handling as _request, on a client of its own
_request_v3(response) == _request(response)

\* Document(**d): the model is validated; a document needs its id and name
Document(data) ==
    IF {"id", "name"} \subseteq DOMAIN data
    THEN [ok |-> TRUE, value |-> [id |-> data.id]]
    ELSE [ok |-> FALSE, exc |-> [cls |-> "ValidationError"]]

\* [Document(**d) for d in docs]
RECURSIVE DocumentList(_)
DocumentList(items) ==
    IF items = <<>> THEN [ok |-> TRUE, value |-> <<>>]
    ELSE LET head == Document(items[1])
             tail == DocumentList(Tail(items))
         IN  IF ~head.ok THEN head
             ELSE IF ~tail.ok THEN tail
             ELSE [ok |-> TRUE, value |-> <<head.value>> \o tail.value]

\* the requests of get_workspace_members and of the docs methods
GroupsRequest ==
    [method |-> "GET", path |-> <<"group">>, params |-> [k \in {} |-> None],
     response |-> Pending]

TeamRequest(workspace_id) ==
    [method |-> "GET", path |-> <<"team", workspace_id>>, params |-> [k \in {} |-> None],
     response |-> Pending]

UserRequest ==
    [method |-> "GET", path |-> <<"user">>, params |-> [k \in {} |-> None],
     response |-> Pending]

DocsRequest(workspace_id, query) ==
    [method |-> "GET", path |-> <<"workspaces", workspace_id, "docs">>,
     params |-> [k \in (IF Truthy(query) THEN {"query"} ELSE {}) |-> query],
     response |-> Pending]

\* the dictionary a member is returned as (of its six keys, the two that
\* tell members apart)
FormatMember(user_data) ==
    [id |-> Get(user_data, "id", None), username |-> Get(user_data, "username", None)]

\* "for group in groups: for member in group.get('members', [])"
RECURSIVE AllMembers(_)
AllMembers(groups) ==
    IF groups = <<>> THEN <<>>
    ELSE Get(groups[1], "members", <<>>) \o AllMembers(Tail(groups))

\* "if user_id and user_id not in members_dict: members_dict[user_id] =
\* user_data", then list(members_dict.values()): insertion order
RECURSIVE UniqueMembers(_, _)
UniqueMembers(members, found) ==
    IF members = <<>> THEN found
    ELSE LET user_id == Get(members[1], "id", None)
         IN  IF Truthy(user_id) /\ \A i \in DOMAIN found : found[i].id # user_id
             THEN UniqueMembers(Tail(members), Append(found, FormatMember(members[1])))
             ELSE UniqueMembers(Tail(members), found)

RECURSIVE GroupMembers_PerGroup(_)
\* variant of GroupMembers: the members of every group are returned, a
\* user of two groups twice
GroupMembers_PerGroup(groups) ==
    IF groups = <<>> THEN <<>>
    ELSE UniqueMembers(Get(groups[1], "members", <<>>), <<>>)
         \o GroupMembers_PerGroup(Tail(groups))

\* the unique members of all groups
GroupMembers(groups) == UniqueMembers(AllMembers(groups), <<>>)

\* the members of the team endpoint: a member is the user itself or holds
\* it under "user"
TeamMembers(members) ==
    [i \in DOMAIN members |->
        FormatMember(IF "user" \in DOMAIN members[i] THEN members[i].user ELSE members[i])]

\* the locals of a client method before its first statement
ClientInit(name, args) ==
    [name |-> name, args |-> args, pc |-> "start", workspace_id |-> None,
     requests |-> <<>>, outcome |-> Running]

ClientReturn(c, value) == [c EXCEPT !.pc = "done", !.outcome = Return(value)]

ClientRaise(c, exc) == [c EXCEPT !.pc = "done", !.outcome = Raise(exc)]

ClientAwait(c, next, req) == [c EXCEPT !.pc = next, !.requests = Append(@, req)]

\* 'raise ClickUpAPIError("No workspaces found")'
NoWorkspacesFound == ClickUpAPIError(<<"No workspaces found">>, None)

\* the workspace a method works on when it needs none from the store:
\* "workspace_id or self.config.default_workspace_id" for the methods that
\* take one, the configured default for get_subtasks and list_docs
KnownWorkspace(c, cfg) ==
    IF c.name \in {"get_workspace_members", "search_docs"} /\ Truthy(c.args.workspace_id)
    THEN c.args.workspace_id
    ELSE cfg.default_workspace_id

\* the method goes on once it knows its workspace
WithWorkspace(c, workspace_id) ==
    LET r == [c EXCEPT !.workspace_id = workspace_id]
    IN  CASE c.name = "get_workspace_members" -> ClientAwait(r, "groups", GroupsRequest)
          [] c.name = "get_subtasks" ->
                ClientAwait(r, "list", SubtasksRequest(workspace_id, c.args.parent_task_id))
          [] c.name = "list_docs" -> ClientAwait(r, "docs", DocsRequest(workspace_id, None))
          [] c.name = "search_docs" ->
                ClientAwait(r, "docs", DocsRequest(workspace_id, c.args.query))

\* the method runs from its first statement to its first await
ClientStart(c, cfg) ==
    IF c.name = "_request" THEN ClientAwait(c, "request", c.args.request)
    ELSE IF Truthy(KnownWorkspace(c, cfg)) THEN WithWorkspace(c, KnownWorkspace(c, cfg))
    ELSE ClientAwait(c, "workspaces", GetWorkspacesRequest)

\* variant of AfterSource: the team endpoint is left out
AfterSource_SkipsTeam(c) ==
    IF c.pc \in {"groups", "team"} THEN ClientAwait(c, "user", UserRequest)
    ELSE ClientReturn(c, <<>>)

\* get_workspace_members goes on after a source gave no member or failed
\* with an API error: groups, then team, then the current user, then []
AfterSource(c) ==
    IF c.pc = "groups" THEN ClientAwait(c, "team", TeamRequest(c.workspace_id))
    ELSE IF c.pc = "team" THEN ClientAwait(c, "user", UserRequest)
    ELSE ClientReturn(c, <<>>)

\* what a source of get_workspace_members gives: data is the result of
\* _request; the members, or the exception that leaves the method
SourceMembers(c, data) ==
    IF ~data.ok THEN (IF Caught(data.exc) THEN [ok |-> TRUE, value |-> <<>>] ELSE data)
    ELSE CASE c.pc = "groups" ->
                [ok |-> TRUE, value |-> GroupMembers(Get(data.value, "groups", <<>>))]
           [] c.pc = "team" ->
                [ok |-> TRUE,
                 value |-> TeamMembers(Get(Get(data.value, "team", <<>>), "members", <<>>))]
           [] c.pc = "user" ->
                [ok |-> TRUE, value |-> <<FormatMember(Get(data.value, "user", <<>>))>>]

\* the method c goes on with the answer to its outstanding request, up to
\* its next await or its end
ClientOn(c, cfg, response) ==
    LET r == [c EXCEPT !.requests[Len(c.requests)].response = response]
    IN  CASE c.pc = "request" ->
               LET d == _request(response)
               IN  IF d.ok THEN ClientReturn(r, d.value) ELSE ClientRaise(r, d.exc)
          [] c.pc = "workspaces" ->
               LET w == get_workspaces(response)
               IN  IF ~w.ok THEN ClientRaise(r, w.exc)
                   ELSE IF w.value = <<>>
                   THEN IF c.name = "get_subtasks" THEN ClientReturn(r, <<>>)
                        ELSE ClientRaise(r, NoWorkspacesFound)
                   ELSE WithWorkspace(r, w.value[1].id)
          [] c.pc \in {"groups", "team", "user"} ->
               LET m == SourceMembers(c, _request(response))
               IN  IF ~m.ok THEN ClientRaise(r, m.exc)
                   ELSE IF m.value # <<>> THEN ClientReturn(r, m.value)
                   ELSE AfterSource(r)
          [] c.pc = "list" ->
               LET s == get_subtasks(response)
               IN  IF s.ok THEN ClientReturn(r, s.value) ELSE ClientRaise(r, s.exc)
          [] c.pc = "docs" ->
               LET d == _request_v3(response)
               IN  IF ~d.ok
                   THEN IF Caught(d.exc) THEN ClientReturn(r, <<>>) ELSE ClientRaise(r, d.exc)
                   ELSE LET docs == DocumentList(Get(d.value, "docs", <<>>))
                        IN  IF docs.ok THEN ClientReturn(r, docs.value)
                            ELSE ClientRaise(r, docs.exc)
          [] OTHER -> c

\* users of the store, as the groups and team endpoints list them
MemberJson(id, username) == [id |-> id, username |-> username]

MemberJsons == {MemberJson(<<"u","1">>, <<"a">>), MemberJson(<<"u","2">>, <<"b">>)}

GroupJsons == {[members |-> ms] : ms \in SeqsUpTo(MemberJsons, MaxMembers)}

\* answers to GET /group: every list of groups within the bounds, groups
\* whose copies of one user differ, a member without id, a group without
\* members, and a body without groups
GroupsBodies ==
    {[groups |-> gs] : gs \in SeqsUpTo(GroupJsons, MaxGroups)}
    \cup {[groups |-> <<[members |-> <<MemberJson(<<"u","2">>, <<"b">>),
                                       MemberJson(<<"u","1">>, <<"a">>)>>],
                        [members |-> <<MemberJson(<<"u","1">>, <<"z">>),
                                       MemberJson(<<"u","3">>, <<"c">>),
                                       MemberJson(<<"u","2">>, <<"b">>)>>]>>],
          [groups |-> <<[members |-> <<[username |-> <<"n">>],
                                       MemberJson(<<"u","1">>, <<"a">>)>>],
                        [name |-> <<"e">>]>>],
          [k \in {} |-> None]}

\* answers to GET /team/{workspace_id}
TeamBodies ==
    {[team |-> [members |-> <<>>]],
     [team |-> [members |-> <<[user |-> MemberJson(<<"u","4">>, <<"d">>)],
                              MemberJson(<<"u","5">>, <<"e">>)>>]],
     [k \in {} |-> None]}

\* answers to GET /user
UserBodies == {[user |-> MemberJson(<<"u","6">>, <<"f">>)], [k \in {} |-> None]}

\* answers to GET /workspaces/{workspace_id}/docs
DocsBodies ==
    {[docs |-> <<>>],
     [docs |-> <<[id |-> <<"d","1">>, name |-> <<"n">>]>>],
     [docs |-> <<[id |-> <<"d","1">>, name |-> <<"n">>], [id |-> <<"d","2">>]>>]}

\* the statuses and bodies _request tells apart
Statuses == {200, 204, 399, 400, 404, 500}

HttpResponses ==
    {[kind |-> "response", status_code |-> s, is_json |-> TRUE, body |-> b] :
        s \in Statuses, b \in {[err |-> "not found"], [id |-> <<"x","0">>]}}
    \cup {[kind |-> "response", status_code |-> s, is_json |-> FALSE, text |-> t] :
            s \in Statuses, t \in {"", "<html>"}}
    \cup {[kind |-> "timeout"], [kind |-> "request_error"]}

\* the failures of the store a client method meets, and a body that is
\* not JSON
ClientFailures ==
    ErrorResponses \cup {[kind |-> "request_error"]}
    \cup {r \in MalformedResponses : ~r.is_json}

\* the answers the store can give to the outstanding request of c
ClientAnswers(c) ==
    CASE c.pc = "request" -> HttpResponses
      [] c.pc = "workspaces" -> WorkspaceResponses \cup ClientFailures
      [] c.pc = "groups" -> {OkResponse(b) : b \in GroupsBodies} \cup ClientFailures
      [] c.pc = "team" -> {OkResponse(b) : b \in TeamBodies} \cup ClientFailures
      [] c.pc = "user" -> {OkResponse(b) : b \in UserBodies} \cup ClientFailures
      [] c.pc = "list" ->
           {OkResponse([tasks |-> <<>>]),
            OkResponse([tasks |-> <<SubtaskJson(<<"c","1">>, ParentId)>>]),
            OkResponse([k \in {} |-> None])}
           \cup ClientFailures \cup MalformedResponses
      [] c.pc = "docs" -> {OkResponse(b) : b \in DocsBodies} \cup ClientFailures
      [] OTHER -> {}

ClientConfigs ==
    { [id_patterns |-> {<<"g">>}, default_team_id |-> None, default_workspace_id |-> w] :
        w \in WorkspaceIds \cup {<<>>} }

InitClient ==
    /\ ResolverIdle
    /\ config \in ClientConfigs
    /\ resolutions = <<>>
    /\ parses = <<>>
    /\ tool = NoTool
    /\ client = NoCall

\* client._request(method, path)
CallRequest ==
    /\ client = NoCall
    /\ \E method \in {"GET", "DELETE"} :
          client' = ClientStart(ClientInit("_request",
                        [request |-> [method |-> method, path |-> <<"task", <<"x","0">>>>,
                                      params |-> [k \in {} |-> None],
                                      response |-> Pending]]), config)
    /\ UNCHANGED <<task_id, include_subtasks, config, pc, parsed, requests,
                   direct_error, custom_error, outcome, resolutions, parses, tool>>

\* client.get_workspace_members(workspace_id)
CallGetWorkspaceMembers ==
    /\ client = NoCall
    /\ \E workspace_id \in {None, <<"W","9">>} :
          client' = ClientStart(ClientInit("get_workspace_members",
                                           [workspace_id |-> workspace_id]), config)
    /\ UNCHANGED <<task_id, include_subtasks, config, pc, parsed, requests,
                   direct_error, custom_error, outcome, resolutions, parses, tool>>

\* client.get_subtasks(parent_task_id)
CallGetSubtasks ==
    /\ client = NoCall
    /\ client' = ClientStart(ClientInit("get_subtasks", [parent_task_id |-> ParentId]),
                             config)
    /\ UNCHANGED <<task_id, include_subtasks, config, pc, parsed, requests,
                   direct_error, custom_error, outcome, resolutions, parses, tool>>

\* client.list_docs()
CallListDocs ==
    /\ client = NoCall
    /\ client' = ClientStart(ClientInit("list_docs", [folder_id |-> None]), config)
    /\ UNCHANGED <<task_id, include_subtasks, config, pc, parsed, requests,
                   direct_error, custom_error, outcome, resolutions, parses, tool>>

\* client.search_docs(query, workspace_id)
CallSearchDocs ==
    /\ client = NoCall
    /\ \E query \in {<<>>, <<"q">>}, workspace_id \in {None, <<"W","9">>} :
          client' = ClientStart(ClientInit("search_docs",
                        [query |-> query, workspace_id |-> workspace_id]), config)
    /\ UNCHANGED <<task_id, include_subtasks, config, pc, parsed, requests,
                   direct_error, custom_error, outcome, resolutions, parses, tool>>

\* the store answers the outstanding request of the client method
ClientAnswer ==
    /\ client.name # "none"
    /\ \E response \in ClientAnswers(client) :
          client' = ClientOn(client, config, response)
    /\ UNCHANGED <<task_id, include_subtasks, config, pc, parsed, requests,
                   direct_error, custom_error, outcome, resolutions, parses, tool>>

NextClient ==
    \/ CallRequest
    \/ CallGetWorkspaceMembers
    \/ CallGetSubtasks
    \/ CallListDocs
    \/ CallSearchDocs
    \/ ClientAnswer

SpecClient == InitClient /\ [][NextClient]_vars

\* ---- claims about the client ----

ClientDone(name) == client.name = name /\ client.pc = "done"

ClientReturned(value) == client.outcome = Return(value)

ClientRaisedApiError ==
    client.outcome.kind = "raise" /\ client.outcome.exc.cls = "ClickUpAPIError"

\* the store did not answer, or answered with an error status: the
\* failures ClickUpAPIError stands for
ApiFails(response) == response.kind # "response" \/ response.status_code >= 400

\* an answer without error status whose body is not JSON
Undecodable(response) ==
    response.kind = "response" /\ response.status_code < 400 /\ ~response.is_json

\* C22: a response with status >= 400 is raised as a ClickUpAPIError with
\* that status and with the body's 'err' (or the raw text of a body that is
\* not JSON) in its message; a response with status < 400 gives its parsed
\* JSON body; a timeout or transport failure is a ClickUpAPIError
C22_RequestContract ==
    ClientDone("_request") =>
        LET response == client.requests[1].response
        IN  IF response.kind # "response" THEN ClientRaisedApiError
            ELSE IF response.status_code >= 400
            THEN /\ ClientRaisedApiError
                 /\ client.outcome.exc.status_code = response.status_code
                 /\ (response.is_json /\ "err" \in DOMAIN response.body) =>
                        /\ Len(client.outcome.exc.message) = 3
                        /\ client.outcome.exc.message[3] = response.body.err
                 /\ ~response.is_json =>
                        /\ Len(client.outcome.exc.message) = 3
                        /\ client.outcome.exc.message[3] = response.text
            ELSE /\ client.outcome.kind = "return"
                 /\ response.is_json => client.outcome.value = response.body

\* the requests get_workspace_members sends to its sources (the listing of
\* the workspaces that precedes them left out)
MemberSources(c) ==
    IF c.requests # <<>> /\ c.requests[1].path = GetWorkspacesRequest.path
    THEN Tail(c.requests) ELSE c.requests

SourceOrder(c) == <<GroupsRequest, TeamRequest(c.workspace_id), UserRequest>>

\* the members an answered source has for the caller (none when it fails)
Yield(c, i) ==
    LET response == MemberSources(c)[i].response
    IN  IF ApiFails(response) THEN <<>>
        ELSE CASE i = 1 -> GroupMembers(Get(response.body, "groups", <<>>))
               [] i = 2 -> TeamMembers(Get(Get(response.body, "team", <<>>), "members", <<>>))
               [] i = 3 -> <<FormatMember(Get(response.body, "user", <<>>))>>

\* C23: the sources are asked in the order groups, team, current user; a
\* later one is asked only after every earlier one failed with an API
\* error or had no member; the result is the members of the first source
\* that has any, and the empty list when none has and the last has failed
C23_SourcesInOrder ==
    client.name = "get_workspace_members" =>
        LET s == MemberSources(client)
        IN  /\ Len(s) <= 3
            /\ \A i \in DOMAIN s :
                  /\ s[i].method = "GET"
                  /\ s[i].path = SourceOrder(client)[i].path
                  /\ i < Len(s) => ~Undecodable(s[i].response) /\ Yield(client, i) = <<>>
            /\ (client.pc = "done" /\ s # <<>> /\ ~Undecodable(s[Len(s)].response)) =>
                  /\ ClientReturned(Yield(client, Len(s)))
                  /\ Yield(client, Len(s)) = <<>> =>
                        Len(s) = 3 /\ ApiFails(s[3].response)

C23_Witness ==
    /\ ClientDone("get_workspace_members")
    /\ Len(MemberSources(client)) = 3
    /\ ApiFails(MemberSources(client)[1].response)
    /\ ~ApiFails(MemberSources(client)[2].response)
    /\ ClientReturned(<<FormatMember(MemberJson(<<"u","6">>, <<"f">>))>>)

\* the members the answer of the groups endpoint lists, group after group
RECURSIVE Listed(_)
Listed(groups) ==
    IF groups = <<>> THEN <<>>
    ELSE (IF "members" \in DOMAIN groups[1] THEN groups[1].members ELSE <<>>)
         \o Listed(Tail(groups))

IdOf(member) == IF "id" \in DOMAIN member THEN member.id ELSE None

FirstAt(listed, id) ==
    CHOOSE k \in DOMAIN listed :
        IdOf(listed[k]) = id /\ \A j \in 1..(k - 1) : IdOf(listed[j]) # id

\* the call ended with the members of the groups endpoint
FromGroups ==
    /\ ClientDone("get_workspace_members")
    /\ Len(MemberSources(client)) = 1
    /\ client.outcome.kind = "return"

GroupsListed == Listed(MemberSources(client)[1].response.body.groups)

\* C24: the members returned from the groups endpoint hold every listed
\* user id once, in the order in which the ids first occur in the groups
C24_UniqueInFirstOccurrenceOrder ==
    FromGroups =>
        LET m == client.outcome.value
            listed == GroupsListed
        IN  /\ \A i, j \in DOMAIN m : i < j => m[i].id # m[j].id
            /\ \A i \in DOMAIN m : \E k \in DOMAIN listed : IdOf(listed[k]) = m[i].id
            /\ \A k \in DOMAIN listed :
                  IdOf(listed[k]) # None => \E i \in DOMAIN m : m[i].id = IdOf(listed[k])
            /\ \A i, j \in DOMAIN m :
                  i < j => FirstAt(listed, m[i].id) < FirstAt(listed, m[j].id)
            /\ \A i \in DOMAIN m :
                  m[i] = FormatMember(listed[FirstAt(listed, m[i].id)])

\* two groups share a user, and a user of the second group only comes
\* before another one of the first occurrence order
C24_Witness ==
    /\ FromGroups
    /\ Len(client.outcome.value) = 3
    /\ Len(GroupsListed) = 5
    /\ client.outcome.value[1].id = <<"u","2">>

\* some request of the call failed with an API error
SomeRequestFailed ==
    \E i \in DOMAIN client.requests : ApiFails(client.requests[i].response)

\* C25: get_subtasks returns [] whenever one of its requests fails with an
\* API error; without any workspace it returns [] after the listing of the
\* workspaces alone; with a default workspace it sends one request, with
\* the parent id and include_closed=true
C25_SubtasksNeverRaise ==
    ClientDone("get_subtasks") =>
        /\ SomeRequestFailed => ClientReturned(<<>>)
        /\ (/\ ~Truthy(config.default_workspace_id)
            /\ client.requests[1].response \in {OkResponse([teams |-> <<>>])}) =>
                ClientReturned(<<>>) /\ Len(client.requests) = 1
        /\ Truthy(config.default_workspace_id) =>
                /\ Len(client.requests) = 1
                /\ client.requests[1].path = <<"team", config.default_workspace_id, "task">>
                /\ client.requests[1].params =
                      [parent |-> client.args.parent_task_id,
                       include_closed |-> <<"t","r","u","e">>]

\* C26: list_docs and search_docs return [] whenever a request of theirs
\* fails with an API error, with and without a default workspace
C26_DocsDegrade ==
    (ClientDone("list_docs") \/ ClientDone("search_docs")) =>
        (SomeRequestFailed => ClientReturned(<<>>))

\* ---- create_task_chain, the mutating task tools, call_tool and the
\* ---- server's handler ----

MaxTasks == 3

\* the keys of ClickUpTools._tools modelled here
MutatingTools ==
    {"delete_task", "update_task", "update_task_status", "assign_task",
     "create_task_comment"}

RegisteredTools == MutatingTools \cup {"create_task_chain"}

\* task_request.model_dump(exclude_none=True) of a CreateTaskRequest with
\* name and links_to
CreateTaskRequest(name, links_to) ==
    IF links_to = None THEN [name |-> name]
    ELSE [name |-> name, links_to |-> links_to]

\* the request of ClickUpClient.create_task
PostTaskRequest(list_id, json) ==
    [method |-> "POST", path |-> <<"list", list_id, "task">>, json |-> json,
     response |-> Pending]

\* ClickUpClient.create_task after its request was answered
create_task(response) ==
    LET data == _request(response)
    IN  IF data.ok THEN Task(data.value) ELSE data

\* variant of ChainLink: every later task is linked to the first one
ChainLink_First(t) ==
    IF t.auto_link /\ t.i > 1 /\ t.created_tasks # <<>>
    THEN t.created_tasks[1].id ELSE None

\* "if auto_link and i > 0 and created_tasks: task_request.links_to =
\* created_tasks[-1]['id']"
ChainLink(t) ==
    IF t.auto_link /\ t.i > 1 /\ t.created_tasks # <<>>
    THEN t.created_tasks[Len(t.created_tasks)].id ELSE None

\* the loop of create_task_chain at its head: the next create call, or the
\* result after the last task
ChainContinue(t) ==
    IF t.i > Len(t.tasks)
    THEN ToolReturn(t, [created |-> Len(t.created_tasks), tasks |-> t.created_tasks,
                        linked |-> t.auto_link])
    ELSE ToolAwait(t, "create",
                   PostTaskRequest(t.list_id,
                                   CreateTaskRequest(t.tasks[t.i].title, ChainLink(t))))

ChainInit(tasks, list_id, auto_link) ==
    [tasks |-> tasks, list_id |-> list_id, auto_link |-> auto_link,
     created_tasks |-> <<>>] @@ ToolInit("create_task_chain", <<>>, FALSE)

\* the request a mutating tool sends for the task with this id
MutatingRequest(name, id) ==
    CASE name = "delete_task" ->
           [method |-> "DELETE", path |-> <<"task", id>>, response |-> Pending]
      [] name = "create_task_comment" ->
           [method |-> "POST", path |-> <<"task", id, "comment">>,
            json |-> "payload", response |-> Pending]
      [] OTHER -> PutTaskRequest(id, "update_request")

\* the dictionary a mutating tool returns for an API error
MutatingError(t, exc) ==
    [error |-> <<"Failed", t.name, t.task_ids[1], Str(exc)>>]

\* a mutating tool after "await self._resolve_task_id(task_id)" has ended
AfterMutatingResolved(t) ==
    LET out == t.res.outcome
    IN  IF out.kind = "raise"
        THEN IF Caught(out.exc) THEN ToolReturn(t, MutatingError(t, out.exc))
             ELSE ToolRaise(t, out.exc)
        ELSE ToolAwait([t EXCEPT !.task = out.value], "mutate",
                       MutatingRequest(t.name, out.value.id))

\* a mutating tool after its own request was answered: update_task sends
\* it outside its try block, the other four inside
AfterMutation(t, response) ==
    LET d == CASE t.name \in {"delete_task", "create_task_comment"} -> _request(response)
               [] OTHER -> update_task(response)
    IN  IF ~d.ok
        THEN IF Caught(d.exc) /\ t.name # "update_task"
             THEN ToolReturn(t, MutatingError(t, d.exc))
             ELSE ToolRaise(t, d.exc)
        ELSE CASE t.name = "delete_task" ->
                    ToolReturn(t, [id |-> t.task.id, deleted |-> TRUE])
               [] t.name = "create_task_comment" ->
                    ToolReturn(t, [task_id |-> t.task.id,
                                   comment_id |-> Get(d.value, "id", None),
                                   created |-> TRUE])
               [] OTHER -> ToolReturn(t, [id |-> d.value.id, updated |-> TRUE])

\* json.dumps(result)
Json(result) == [json |-> result]

\* 'raise ValueError(f"Unknown tool: {name}")'
UnknownTool(name) == [cls |-> "ValueError", message |-> <<"Unknown tool", name>>]

\* variant of call_tool: only API errors are turned into a result
call_tool_ApiOnly(name, out) ==
    IF name \notin RegisteredTools THEN Raise(UnknownTool(name))
    ELSE IF out.kind = "return" THEN Return(Json(out.value))
    ELSE IF Caught(out.exc)
    THEN Return(Json([error |-> Str(out.exc), type |-> "api_error"]))
    ELSE out

\* ClickUpTools.call_tool, out being how the tool itself ended
call_tool(name, out) ==
    IF name \notin RegisteredTools THEN Raise(UnknownTool(name))
    ELSE IF out.kind = "return" THEN Return(Json(out.value))
    ELSE IF Caught(out.exc)
    THEN Return(Json([error |-> Str(out.exc), type |-> "api_error"]))
    ELSE Return(Json([error |-> Str(out.exc), type |-> "internal_error"]))

\* the server's call_tool handler, out being how ClickUpTools.call_tool
\* ended
handler(out) ==
    IF out.kind = "return" THEN Return(<<[type |-> "text", text |-> out.value]>>)
    ELSE Return(<<[type |-> "text",
                   text |-> <<"Error: ">> \o (IF "message" \in DOMAIN out.exc
                                              THEN out.exc.message
                                              ELSE <<out.exc.cls>>)]>>)

\* once the tool has ended, call_tool and the handler end in the same step
Serve(t) ==
    IF t.pc # "done" THEN t
    ELSE [call_tool |-> call_tool(t.name, t.outcome),
          handler |-> handler(call_tool(t.name, t.outcome))] @@ t

\* the served tool call t goes on with the answer to its outstanding
\* request
ServerOn(t, cfg, response) ==
    IF t.pc = "resolve"
    THEN LET r == [t EXCEPT !.res = ResolveOn(t.res, cfg, response)]
         IN  IF r.res.pc # "done" THEN r ELSE Serve(AfterMutatingResolved(r))
    ELSE LET r == [t EXCEPT !.requests[Len(t.requests)].response = response]
         IN  CASE t.pc = "create" ->
                    LET task == create_task(response)
                    IN  IF ~task.ok THEN Serve(ToolRaise(r, task.exc))
                        ELSE Serve(ChainContinue(
                                 [r EXCEPT !.created_tasks =
                                               Append(@, [id |-> task.value.id]),
                                           !.i = @ + 1]))
               [] t.pc = "mutate" -> Serve(AfterMutation(r, response))
               [] OTHER -> t

\* the tasks given to create_task_chain and the ids the store gives them
ChainTitles == {"Design", "Build"}

ChainTasks == SeqsUpTo({[title |-> n] : n \in ChainTitles}, MaxTasks)

CreatedIds == {<<"t","1">>, <<"t","2">>}

\* the answers the store can give to the outstanding request of t
ServerAnswers(t) ==
    LET failures == {r \in ErrorResponses : r.kind = "timeout" \/ r.is_json}
    IN  CASE t.pc = "resolve" -> ConcAnswers(t.res)
          [] t.pc = "create" ->
               {OkResponse(TaskJson(id, None)) : id \in CreatedIds}
               \cup failures \cup MalformedResponses
          [] t.pc = "mutate" ->
               {OkResponse(TaskJson(t.task.id, None)), OkResponse([id |-> <<"c","9">>])}
               \cup failures \cup {r \in MalformedResponses : ~r.is_json}
          [] OTHER -> {}

InitServer ==
    /\ ResolverIdle
    /\ config \in ConcConfigs
    /\ resolutions = <<>>
    /\ parses = <<>>
    /\ tool = NoTool
    /\ client = NoCall

\* the handler is called for create_task_chain
CallChain ==
    /\ tool = NoTool
    /\ \E tasks \in ChainTasks, auto_link \in BOOLEAN :
          tool' = Serve(ChainContinue(ChainInit(tasks, <<"L","1">>, auto_link)))
    /\ UNCHANGED <<task_id, include_subtasks, config, pc, parsed, requests,
                   direct_error, custom_error, outcome, resolutions, parses, client>>

\* the handler is called for one of the mutating task tools
CallMutating ==
    /\ tool = NoTool
    /\ \E name \in MutatingTools, ref \in ToolRefs :
          tool' = ToolResolve(ToolInit(name, <<ref>>, FALSE), "resolve", ref, FALSE, config)
    /\ UNCHANGED <<task_id, include_subtasks, config, pc, parsed, requests,
                   direct_error, custom_error, outcome, resolutions, parses, client>>

\* the handler is called with a name that is no key of _tools
CallUnknown ==
    /\ tool = NoTool
    /\ \E name \in {"no_such_tool", ""} :
          tool' = Serve([ToolInit(name, <<>>, FALSE) EXCEPT !.pc = "done"])
    /\ UNCHANGED <<task_id, include_subtasks, config, pc, parsed, requests,
                   direct_error, custom_error, outcome, resolutions, parses, client>>

\* the store answers the outstanding request of the served tool call
ServerAnswer ==
    /\ tool.name # "none"
    /\ \E response \in ServerAnswers(tool) :
          tool' = ServerOn(tool, config, response)
    /\ UNCHANGED <<task_id, include_subtasks, config, pc, parsed, requests,
                   direct_error, custom_error, outcome, resolutions, parses, client>>

NextServer == CallChain \/ CallMutating \/ CallUnknown \/ ServerAnswer

SpecServer == InitServer /\ [][NextServer]_vars

Served == tool.name # "none" /\ tool.pc = "done"

\* C21: the k-th create call of create_task_chain is for the k-th input
\* task; with auto_link every call after the first carries links_to, the
\* id the store returned for the call before it, and the first carries
\* none; a chain that succeeds reports as many created tasks as inputs,
\* with the ids of the store in input order
C21_ChainInInputOrder ==
    tool.name = "create_task_chain" =>
        LET calls == tool.requests
        IN  /\ Len(calls) <= Len(tool.tasks)
            /\ \A k \in DOMAIN calls :
                  /\ calls[k].method = "POST"
                  /\ calls[k].path = <<"list", tool.list_id, "task">>
                  /\ calls[k].json.name = tool.tasks[k].title
                  /\ (tool.auto_link /\ k > 1) =>
                        /\ "links_to" \in DOMAIN calls[k].json
                        /\ calls[k].json.links_to = calls[k - 1].response.body.id
                  /\ k = 1 => "links_to" \notin DOMAIN calls[k].json
            /\ (tool.pc = "done" /\ tool.outcome.kind = "return") =>
                  /\ Len(calls) = Len(tool.tasks)
                  /\ tool.outcome.value.created = Len(tool.tasks)
                  /\ Len(tool.outcome.value.tasks) = Len(tool.tasks)
                  /\ \A k \in DOMAIN calls :
                        tool.outcome.value.tasks[k].id = calls[k].response.body.id

\* a chain of three tasks ended well, the store having given the first
\* two tasks different ids
C21_Witness ==
    /\ Served
    /\ tool.name = "create_task_chain"
    /\ tool.auto_link
    /\ tool.outcome.kind = "return"
    /\ tool.outcome.value.created = 3
    /\ tool.requests[1].response.body.id # tool.requests[2].response.body.id
    /\ tool.requests[3].json.links_to = tool.requests[2].response.body.id

\* the resolution a mutating tool awaited has ended
ResolutionEnded == tool.res.pc = "done"

\* C28: a mutating tool sends its request only once the resolution has
\* returned a record, and for the id of that record; when the resolution
\* fails it sends no request and returns an error object
C28_MutateOnlyResolved ==
    tool.name \in MutatingTools =>
        /\ \A k \in DOMAIN tool.requests :
              /\ ResolutionEnded
              /\ tool.res.outcome.kind = "return"
              /\ tool.requests[k].path[2] = tool.res.outcome.value.id
        /\ (ResolutionEnded /\ tool.res.outcome.kind = "raise") =>
              /\ tool.requests = <<>>
              /\ tool.pc = "done"
              /\ tool.outcome.kind = "return"
              /\ "error" \in DOMAIN tool.outcome.value

\* C30: call_tool ends a registered tool with a JSON result: the tool's
\* own result, or an error object of type api_error for a ClickUpAPIError
\* and of type internal_error for any other exception; it raises
\* ValueError for a name that is not registered; the handler always
\* returns one text, which starts with "Error: " when call_tool raised
C30_HandlerNeverRaises ==
    Served =>
        /\ tool.name \in RegisteredTools =>
              /\ tool.call_tool.kind = "return"
              /\ tool.outcome.kind = "return" =>
                    tool.call_tool.value = Json(tool.outcome.value)
              /\ tool.outcome.kind = "raise" =>
                    /\ DOMAIN tool.call_tool.value.json = {"error", "type"}
                    /\ tool.call_tool.value.json.type =
                          IF tool.outcome.exc.cls = "ClickUpAPIError"
                          THEN "api_error" ELSE "internal_error"
        /\ tool.name \notin RegisteredTools =>
              /\ tool.call_tool.kind = "raise"
              /\ tool.call_tool.exc.cls = "ValueError"
        /\ tool.handler.kind = "return"
        /\ Len(tool.handler.value) = 1
        /\ tool.handler.value[1].type = "text"
        /\ tool.call_tool.kind = "return" =>
              tool.handler.value[1].text = tool.call_tool.value
        /\ tool.call_tool.kind = "raise" =>
              tool.handler.value[1].text[1] = "Error: "

\* a tool raised an exception that is no API error, and the handler
\* returned the JSON object of call_tool
C30_Witness ==
    /\ Served
    /\ tool.name \in RegisteredTools
    /\ tool.outcome.kind = "raise"
    /\ tool.outcome.exc.cls # "ClickUpAPIError"
    /\ tool.handler.value[1].text.json.type = "internal_error"

=============================================================================
